---- MODULE Spec2Model ----
(***************************************************************************)
(* cv_analyser: the response-normalization and scoring-overlay core.       *)
(*                                                                         *)
(* Representation.                                                         *)
(*  - A Python str is a sequence of one-character strings, so that         *)
(*    str.lower(), str.strip(), str.find() act on its characters.          *)
(*  - A JSON scalar is a record [t, s, n]: t is its JSON type, s its text  *)
(*    when t = "str", n its number when t = "num".                         *)
(*  - Numbers are exact rationals held as scaled integers: a duration is   *)
(*    in months, a number of years is in twelfths of a year, a fraction    *)
(*    (penalty, boost) is in 1/600, a score is in sixths of a point.       *)
(*    IEEE-754 rounding of the Python floats is not modelled.              *)
(***************************************************************************)
EXTENDS Integers, Sequences, FiniteSets, TLC

VARIABLES
    settings,        \* the process-wide Settings (API keys)
    op,              \* the operation in progress, "none" when idle
    pc,              \* position inside the operation
    request,         \* the body of the HTTP request being served
    cv,              \* the CV entity of the operation
    job,             \* the Job entity of the operation
    raw_response,    \* the text the generative collaborator returned
    response,        \* the local variable `response` of the operation
    parser_input,    \* the text last handed to json.loads
    payload,         \* the value json.loads returned
    analysis_in,     \* the MatchAnalysis as handed to _apply_business_rules
    analysis,        \* the MatchAnalysis object (mutated in place)
    result,          \* what the operation returned to its caller
    error,           \* the exception that left the operation, NoError if none
    generate_calls,  \* calls of model.generate_content in this operation
    parser_calls,    \* calls of json.loads in this operation
    converter_calls, \* calls of a convert_to_* function in this operation
    rules_applied,   \* _apply_business_rules has run in this operation
    args,            \* the arguments of the entity-level call last made
    value,           \* what that call returned
    tasks,           \* the create_match_analysis coroutines in flight, by id
    ai_service,      \* the AI service object the route in progress holds
    upload,          \* the POST /api/v1/cv/upload request in progress
    health           \* the last answer of GET /health

inputs == <<settings, request, cv, job>>
texts == <<raw_response, response, parser_input>>
calls == <<generate_calls, parser_calls, converter_calls>>
entity == <<args, value>>
web == <<ai_service, upload, health>>
vars == <<inputs, op, pc, texts, payload, analysis_in, analysis, result, error,
          calls, rules_applied, entity, tasks, web>>

(***************************************************************************)
(* Bounds of the model.                                                    *)
(***************************************************************************)
MaxReqs == 3         \* longest required_skills list of a Job
MaxSkills == 1       \* longest skills list of a CV
MaxLen == 3          \* longest response text of the collaborator
MaxRecs == 2         \* longest list of sub-records in a CV or job payload
MaxMatches == 1      \* longest skill_matches list in a match payload
MaxMissing == 4      \* longest missing_skills list of a MatchAnalysis
MaxEdu == 2          \* longest education list of a CV or a Job
MaxText == 2         \* longest raw_text of a CV handed to validate_cv
MaxTasks == 2        \* create_match_analysis computations in flight together

(***************************************************************************)
(* Generic helpers.                                                        *)
(***************************************************************************)
Max(a, b) == IF a >= b THEN a ELSE b
Min(a, b) == IF a <= b THEN a ELSE b

RECURSIVE SeqsUpTo(_, _)
SeqsUpTo(S, n) ==
    IF n = 0 THEN {<<>>}
    ELSE LET shorter == SeqsUpTo(S, n - 1)
         IN  shorter \cup {Append(q, x) : q \in shorter, x \in S}

RECURSIVE SumSeq(_)
SumSeq(q) == IF q = <<>> THEN 0 ELSE Head(q) + SumSeq(Tail(q))

InSeq(x, q) == \E i \in 1..Len(q) : q[i] = x

(***************************************************************************)
(* str.lower()                                                             *)
(***************************************************************************)
UpperChars == <<"A","B","C","D","E","F","G","H","I","J","K","L","M",
                "N","O","P","Q","R","S","T","U","V","W","X","Y","Z">>
LowerChars == <<"a","b","c","d","e","f","g","h","i","j","k","l","m",
                "n","o","p","q","r","s","t","u","v","w","x","y","z">>

lower_char(c) ==
    IF \E i \in 1..Len(UpperChars) : UpperChars[i] = c
    THEN LowerChars[CHOOSE i \in 1..Len(UpperChars) : UpperChars[i] = c]
    ELSE c

lower(s) == [i \in 1..Len(s) |-> lower_char(s[i])]

(***************************************************************************)
(* str.strip(), str.find(), str.rfind(), slicing                           *)
(***************************************************************************)
\* the characters str.strip() removes (the ones the model's texts use)
Whitespace == {" ", "\n", "\t"}

RECURSIVE lstrip(_)
lstrip(s) == IF s # <<>> /\ Head(s) \in Whitespace THEN lstrip(Tail(s)) ELSE s

RECURSIVE rstrip(_)
rstrip(s) ==
    IF s # <<>> /\ s[Len(s)] \in Whitespace
    THEN rstrip(SubSeq(s, 1, Len(s) - 1)) ELSE s

strip(s) == rstrip(lstrip(s))

\* 0-based index of the first / last occurrence of c, -1 if there is none
find(s, c) ==
    IF \E i \in 1..Len(s) : s[i] = c
    THEN (CHOOSE i \in 1..Len(s) : s[i] = c /\ \A k \in 1..(i - 1) : s[k] # c) - 1
    ELSE -1

rfind(s, c) ==
    IF \E i \in 1..Len(s) : s[i] = c
    THEN (CHOOSE i \in 1..Len(s) : s[i] = c /\ \A k \in (i + 1)..Len(s) : s[k] # c) - 1
    ELSE -1

\* s[a:b] for 0 <= a and 0 <= b <= len(s)
slice(s, a, b) == SubSeq(s, a + 1, b)

(***************************************************************************)
(* JSON scalars.                                                           *)
(***************************************************************************)
JMissing == [t |-> "missing", s |-> <<>>, n |-> 0]   \* the key is absent
JNull    == [t |-> "null",    s |-> <<>>, n |-> 0]
JStr(s)  == [t |-> "str",     s |-> s,    n |-> 0]
JNum(n)  == [t |-> "num",     s |-> <<>>, n |-> n]

JBool(b) == [t |-> "bool",    s |-> <<>>, n |-> IF b THEN 1 ELSE 0]

IsNum(v) == v.t = "num"
IsStr(v) == v.t = "str"

\* bool(v): Python truthiness of a JSON scalar
truthy(v) ==
    CASE v.t = "str" -> v.s # <<>>
      [] v.t = "num" -> v.n # 0
      [] v.t = "bool" -> v.n = 1
      [] OTHER -> FALSE

\* dict.get(key, default) on the value found under the key
get(v, default) == IF v.t = "missing" THEN default ELSE v

\* A list-valued JSON field: the key absent, null, or a list of items.
LMissing == [t |-> "missing", v |-> <<>>]
LNull    == [t |-> "null",    v |-> <<>>]
LList(q) == [t |-> "list",    v |-> q]

(***************************************************************************)
(* Units.                                                                  *)
(***************************************************************************)
MonthsPerYear == 12
ScoreScale == MonthsPerYear \div 2          \* sixths of a point
Points(p) == p * ScoreScale                 \* a score of p points
Years(y) == y * MonthsPerYear               \* y years, in twelfths
Percent(p) == p * ScoreScale                \* the fraction p/100, in 1/600
Times100(f) == f                            \* fraction in 1/600 -> score in 1/6

(***************************************************************************)
(* Entities (src/src/domain/entities/__init__.py).                         *)
(***************************************************************************)
\* An exception: its class, the HTTP status when it is an HTTPException, and
\* (bookkeeping of the model) the step that first raised.
NoError == [kind |-> "none", msg |-> "", status |-> 0, cause |-> "none"]
Raise(kind, msg, cause) == [kind |-> kind, msg |-> msg, status |-> 0, cause |-> cause]
HTTPException(status, detail, cause) ==
    [kind |-> "HTTPException", msg |-> detail, status |-> status, cause |-> cause]

\* CV.total_experience_years: [exc, v], v in twelfths of a year.
total_experience_years(c) ==
    IF c.experience = <<>> THEN [exc |-> "none", v |-> 0]
    ELSE IF \E i \in 1..Len(c.experience) : ~IsNum(c.experience[i].duration_months)
         THEN [exc |-> "TypeError", v |-> 0]
         ELSE [exc |-> "none",
               v |-> SumSeq([i \in 1..Len(c.experience) |->
                                c.experience[i].duration_months.n])]

\* CV.skill_names
skill_names(c) == [i \in 1..Len(c.skills) |-> c.skills[i].name]

\* Job.all_required_skill_names
all_required_skill_names(j) ==
    [i \in 1..Len(j.required_skills) |-> j.required_skills[i].skill]

\* Job.mandatory_skills
mandatory_skills(j) ==
    SelectSeq(j.required_skills, LAMBDA req : truthy(req.is_mandatory))

MkSkill(name, level) == [name |-> name, level |-> level]
\* Experience has no __post_init__: skills_used holds what it was given, a
\* list or None, so it is kept as a list-valued field (LList or LNull).
MkExperience(months, skills_used) ==
    [duration_months |-> months, skills_used |-> skills_used]
MkEducation(degree) == [degree |-> degree]
MkRequirement(skill, level, mandatory, weight) ==
    [skill |-> skill, required_level |-> level, is_mandatory |-> mandatory,
     weight |-> weight]

MkSkillMatch(name, cv_level, required_level) ==
    [skill_name |-> name, cv_skill_level |-> cv_level, required_level |-> required_level]

\* The fields that are not arguments below have the dataclass's default: ""
\* for a str, and for a list None, which __post_init__ replaces by [].
MkCV(id, skills, experience, education) ==
    [id |-> id, filename |-> <<>>, raw_text |-> <<>>,
     skills |-> skills, experience |-> experience, education |-> education,
     certifications |-> <<>>, languages |-> <<>>]

MkJob(id, required, preferred, min_years, education) ==
    [id |-> id, title |-> <<>>, description |-> <<>>,
     required_skills |-> required, preferred_skills |-> preferred,
     min_experience_years |-> min_years, required_education |-> education,
     required_certifications |-> <<>>]

MkAnalysis(cv_id, job_id, overall, matches, missing, gap, recs) ==
    [cv_id |-> cv_id, job_id |-> job_id, overall_score |-> overall,
     skills_score |-> JNum(0), experience_score |-> JNum(0),
     education_score |-> JNum(0),
     skill_matches |-> matches, missing_skills |-> missing,
     matching_skills |-> <<>>,
     experience_gap_years |-> gap, recommendations |-> recs,
     interview_tips |-> <<>>]

NoCV == MkCV("", <<>>, <<>>, <<>>)
NoJob == MkJob("", <<>>, <<>>, JNum(0), <<>>)
NoAnalysis == MkAnalysis("", "", JNum(0), <<>>, <<>>, JNum(0), <<>>)

\* SkillLevel values
s_beginner     == <<"b","e","g","i","n","n","e","r">>
s_intermediate == <<"i","n","t","e","r","m","e","d","i","a","t","e">>
s_advanced     == <<"a","d","v","a","n","c","e","d">>
s_expert       == <<"e","x","p","e","r","t">>

\* SkillLevel(value): the member with that value, ValueError if there is none.
SkillLevel(s) ==
    CASE s = s_beginner     -> [exc |-> "none", v |-> "beginner"]
      [] s = s_intermediate -> [exc |-> "none", v |-> "intermediate"]
      [] s = s_advanced     -> [exc |-> "none", v |-> "advanced"]
      [] s = s_expert       -> [exc |-> "none", v |-> "expert"]
      [] OTHER              -> [exc |-> "ValueError", v |-> "None"]

\* no coroutine in flight
NoTasks == <<>>

\* no entity-level call made yet
NoArgs == [kind |-> "none"]
NoValue == [kind |-> "none"]

\* A slip: __post_init__ leaves a None list field as it is
post_init_keeps_none(lf) == lf

\* a dataclass field `name: Optional[List[...]] = None`: an omitted argument
\* is None
default_none(lf) == IF lf.t = "missing" THEN LNull ELSE lf

\* __post_init__ on one list field: `if self.f is None: self.f = []`
post_init(lf) == IF lf.t = "null" THEN LList(<<>>) ELSE lf

\* the list a list field holds after __post_init__
post_init_list(lf) == post_init(lf).v

\* The list fields of CV(...), Job(...), MatchAnalysis(...) after construction
\* with the keyword arguments kw (LMissing for an argument left out).
CV_post_init(kw) ==
    [skills |-> post_init(default_none(kw.skills)),
     education |-> post_init(default_none(kw.education)),
     experience |-> post_init(default_none(kw.experience)),
     certifications |-> post_init(default_none(kw.certifications)),
     languages |-> post_init(default_none(kw.languages))]

Job_post_init(kw) ==
    [required_skills |-> post_init(default_none(kw.required_skills)),
     preferred_skills |-> post_init(default_none(kw.preferred_skills)),
     required_education |-> post_init(default_none(kw.required_education)),
     required_certifications |-> post_init(default_none(kw.required_certifications))]

MatchAnalysis_post_init(kw) ==
    [skill_matches |-> post_init(default_none(kw.skill_matches)),
     missing_skills |-> post_init(default_none(kw.missing_skills)),
     matching_skills |-> post_init(default_none(kw.matching_skills)),
     recommendations |-> post_init(default_none(kw.recommendations)),
     interview_tips |-> post_init(default_none(kw.interview_tips))]

\* MatchStatus values
MatchStatus == {"pending", "in_progress", "completed", "failed"}

\* Match: its status and its analysis, None ([t |-> "null"]) or a
\* MatchAnalysis ([t |-> "obj"]) of which overall_score is read (in sixths)
MkMatch(id, status, a) == [id |-> id, status |-> status, analysis |-> a]
NoMatchAnalysis == [t |-> "null", overall_score |-> 0]
SomeMatchAnalysis(score) == [t |-> "obj", overall_score |-> score]

\* A slip: the analysis is not looked at
is_completed_by_status(m) == m.status = "completed"

\* Match.is_completed
is_completed(m) == m.status = "completed" /\ m.analysis.t # "null"

\* A slip: the boundaries compared with > instead of >=
recommendation_level_exclusive(m) ==
    LET score == m.analysis.overall_score
    IN  IF m.analysis.t = "null" THEN "Unknown"
        ELSE IF score > Points(80) THEN "Highly Recommended"
        ELSE IF score > Points(60) THEN "Recommended"
        ELSE IF score > Points(40) THEN "Consider with Caution"
        ELSE "Not Recommended"

\* Match.recommendation_level; `not self.analysis` is true only of None, a
\* dataclass instance being always truthy
recommendation_level(m) ==
    LET score == m.analysis.overall_score
    IN  IF m.analysis.t = "null" THEN "Unknown"
        ELSE IF score >= Points(80) THEN "Highly Recommended"
        ELSE IF score >= Points(60) THEN "Recommended"
        ELSE IF score >= Points(40) THEN "Consider with Caution"
        ELSE "Not Recommended"

(***************************************************************************)
(* MatchingService (src/src/domain/services/__init__.py).                  *)
(***************************************************************************)
\* A recommendation line.
GivenLine(v)  == [kind |-> "given",  text |-> v,     names |-> <<>>, gap |-> 0]
LearnLine(q)  == [kind |-> "learn",  text |-> JNull, names |-> q,    gap |-> 0]
GainLine(n)   == [kind |-> "gain",   text |-> JNull, names |-> <<>>, gap |-> n]
PursueLine(v) == [kind |-> "pursue", text |-> v,     names |-> <<>>, gap |-> 0]

\* f"{x:.1f}" of x = q/4: the tenths shown, ties to even.
format_1f(q) ==
    LET twice == 5 * q          \* 2 * (10 * q/4)
        floor == twice \div 2
    IN  IF twice % 2 = 0 THEN floor
        ELSE IF floor % 2 = 0 THEN floor ELSE floor + 1

\* A slip: the slice [:3] left out
first_three_unbounded(q) == q

\* analysis.missing_skills[:3]
first_three(q) == SubSeq(q, 1, Min(3, Len(q)))

\* A slip in the order of the steps: the experience line before the skills line
generate_recommendations_gap_first(c, j, a) ==
    LET skill_lines ==
            IF a.missing_skills # <<>>
            THEN <<LearnLine(first_three(a.missing_skills))>> ELSE <<>>
        gap == a.experience_gap_years
        gap_lines ==
            IF gap.n > 0 THEN <<GainLine(format_1f(gap.n))>> ELSE <<>>
        cv_degrees == [i \in 1..Len(c.education) |-> lower(c.education[i].degree.s)]
        missing_education ==
            SelectSeq(j.required_education,
                      LAMBDA edu : ~InSeq(lower(edu.s), cv_degrees))
        edu_lines ==
            IF j.required_education # <<>> /\ c.education # <<>>
               /\ missing_education # <<>>
            THEN <<PursueLine(missing_education[1])>> ELSE <<>>
    IN  IF ~IsNum(gap) THEN [exc |-> "TypeError", lines |-> <<>>]
        ELSE [exc |-> "none", lines |-> gap_lines \o skill_lines \o edu_lines]

\* MatchingService._generate_recommendations: [exc, lines].
generate_recommendations(c, j, a) ==
    LET skill_lines ==
            IF a.missing_skills # <<>>
            THEN <<LearnLine(first_three(a.missing_skills))>> ELSE <<>>
        gap == a.experience_gap_years
        gap_lines ==
            IF gap.n > 0 THEN <<GainLine(format_1f(gap.n))>> ELSE <<>>
        cv_degrees == [i \in 1..Len(c.education) |-> lower(c.education[i].degree.s)]
        missing_education ==
            SelectSeq(j.required_education,
                      LAMBDA edu : ~InSeq(lower(edu.s), cv_degrees))
        edu_lines ==
            IF j.required_education # <<>> /\ c.education # <<>>
               /\ missing_education # <<>>
            THEN <<PursueLine(missing_education[1])>> ELSE <<>>
    IN  IF ~IsNum(gap) THEN [exc |-> "TypeError", lines |-> <<>>]
        ELSE [exc |-> "none", lines |-> skill_lines \o gap_lines \o edu_lines]

\* Rule 1: penalize missing mandatory skills.
rule_penalty(a, c, j) ==
    LET mandatory == [i \in 1..Len(mandatory_skills(j)) |-> mandatory_skills(j)[i].skill]
        missing_mandatory ==
            SelectSeq(mandatory, LAMBDA skill : ~InSeq(skill, skill_names(c)))
        penalty == Len(missing_mandatory) * Percent(10)
    IN  IF missing_mandatory = <<>> THEN [exc |-> "none", a |-> a]
        ELSE IF ~IsNum(a.overall_score) THEN [exc |-> "TypeError", a |-> a]
        ELSE [exc |-> "none",
              a |-> [a EXCEPT !.overall_score =
                        JNum(Max(0, a.overall_score.n - Times100(penalty)))]]

\* A slip: the boost also added to experience_score
rule_boost_on_experience_score(a, c, j) ==
    LET total == total_experience_years(c)
        min_years == j.min_experience_years
        exp_diff == total.v - Years(min_years.n)
        boost == Min(Percent(10), exp_diff)
    IN  IF total.exc # "none" THEN [exc |-> total.exc, a |-> a]
        ELSE IF ~IsNum(min_years) THEN [exc |-> "TypeError", a |-> a]
        ELSE IF ~(total.v >= Years(min_years.n)) THEN [exc |-> "none", a |-> a]
        ELSE IF ~IsNum(a.overall_score) THEN [exc |-> "TypeError", a |-> a]
        ELSE [exc |-> "none",
              a |-> [a EXCEPT !.overall_score =
                        JNum(Min(Points(100), a.overall_score.n + Times100(boost))),
                              !.experience_score =
                        JNum(Min(Points(100), a.experience_score.n + Times100(boost)))]]

\* Rule 2: boost for relevant experience.
rule_boost(a, c, j) ==
    LET total == total_experience_years(c)
        min_years == j.min_experience_years
        exp_diff == total.v - Years(min_years.n)
        boost == Min(Percent(10), exp_diff)        \* exp_diff * 0.02, in 1/600
    IN  IF total.exc # "none" THEN [exc |-> total.exc, a |-> a]
        ELSE IF ~IsNum(min_years) THEN [exc |-> "TypeError", a |-> a]
        ELSE IF ~(total.v >= Years(min_years.n)) THEN [exc |-> "none", a |-> a]
        ELSE IF ~IsNum(a.overall_score) THEN [exc |-> "TypeError", a |-> a]
        ELSE [exc |-> "none",
              a |-> [a EXCEPT !.overall_score =
                        JNum(Min(Points(100), a.overall_score.n + Times100(boost)))]]

\* Rule 3: append the recommendations derived from the gaps.
rule_recommendations(a, c, j) ==
    LET recs == generate_recommendations(c, j, a)
    IN  IF recs.exc # "none" THEN [exc |-> recs.exc, a |-> a]
        ELSE [exc |-> "none",
              a |-> [a EXCEPT !.recommendations = @ \o recs.lines]]

\* A slip in the rule order: the boost applied before the penalty.
apply_business_rules_boost_first(a, c, j) ==
    LET r1 == rule_boost(a, c, j)
        r2 == rule_penalty(r1.a, c, j)
        r3 == rule_recommendations(r2.a, c, j)
    IN  IF r1.exc # "none" THEN r1
        ELSE IF r2.exc # "none" THEN r2
        ELSE r3

\* MatchingService._apply_business_rules: [exc, a].
apply_business_rules(a, c, j) ==
    LET r1 == rule_penalty(a, c, j)
        r2 == rule_boost(r1.a, c, j)
        r3 == rule_recommendations(r2.a, c, j)
    IN  IF r1.exc # "none" THEN r1
        ELSE IF r2.exc # "none" THEN r2
        ELSE r3

(***************************************************************************)
(* ValidationService (src/src/domain/services/__init__.py).                *)
(***************************************************************************)
\* A slip: validation stops at the first violation
validate_cv_first_only(c) ==
    IF strip(c.raw_text) = <<>> THEN <<"CV must contain text content">>
    ELSE IF c.filename = <<>> THEN <<"CV must have a filename">>
    ELSE <<>>

\* ValidationService.validate_cv: the list of messages
validate_cv(c) ==
    LET text_errors ==
            IF strip(c.raw_text) = <<>>
            THEN <<"CV must contain text content">> ELSE <<>>
        filename_errors ==
            IF c.filename = <<>> THEN <<"CV must have a filename">> ELSE <<>>
    IN  text_errors \o filename_errors

\* A slip: validation stops at the first violation
validate_job_first_only(j) ==
    IF strip(j.title) = <<>> THEN <<"Job must have a title">>
    ELSE IF strip(j.description) = <<>> THEN <<"Job must have a description">>
    ELSE IF j.min_experience_years.n < 0
    THEN <<"Minimum experience years cannot be negative">>
    ELSE <<>>

\* ValidationService.validate_job: the list of messages
validate_job(j) ==
    LET title_errors ==
            IF strip(j.title) = <<>> THEN <<"Job must have a title">> ELSE <<>>
        description_errors ==
            IF strip(j.description) = <<>>
            THEN <<"Job must have a description">> ELSE <<>>
        experience_errors ==
            IF j.min_experience_years.n < 0
            THEN <<"Minimum experience years cannot be negative">> ELSE <<>>
    IN  title_errors \o description_errors \o experience_errors

\* A slip: the identifiers stripped without the test for None
validate_match_request_strip_only(cv_id, job_id) ==
    LET cv_errors ==
            IF strip(cv_id.s) = <<>> THEN <<"CV ID is required">> ELSE <<>>
        job_errors ==
            IF strip(job_id.s) = <<>> THEN <<"Job ID is required">> ELSE <<>>
    IN  IF ~IsStr(cv_id) \/ ~IsStr(job_id)
        THEN [exc |-> "AttributeError", errors |-> <<>>]
        ELSE [exc |-> "none", errors |-> cv_errors \o job_errors]

\* ValidationService.validate_match_request: [exc, errors]; an identifier is
\* a JSON scalar, None (JNull) or a str
validate_match_request(cv_id, job_id) ==
    LET cv_errors ==
            IF ~truthy(cv_id) \/ strip(cv_id.s) = <<>>
            THEN <<"CV ID is required">> ELSE <<>>
        job_errors ==
            IF ~truthy(job_id) \/ strip(job_id.s) = <<>>
            THEN <<"Job ID is required">> ELSE <<>>
    IN  [exc |-> "none", errors |-> cv_errors \o job_errors]

(***************************************************************************)
(* Converters (src/src/infrastructure/ai/converters.py).                   *)
(*                                                                         *)
(* A sub-record of a payload list is a record whose t says whether the     *)
(* item is a JSON object ("map") or not; its other fields are the values   *)
(* under the keys the converter reads, JMissing for an absent key.         *)
(***************************************************************************)
valid_levels == <<s_beginner, s_intermediate, s_advanced, s_expert>>

\* data.get(key, []) for a list-valued key
get_list(lf) == IF lf.t = "missing" THEN LList(<<>>) ELSE lf

\* for item in <value>: iterating None raises TypeError
iterate(lf) ==
    IF lf.t = "null" THEN [exc |-> "TypeError", items |-> <<>>]
    ELSE [exc |-> "none", items |-> lf.v]

\* for ...: try: <body>; append  except (ValueError, TypeError): continue
\* over the outcomes [exc, item] of the loop body on each item, in order.
RECURSIVE try_loop(_)
try_loop(outs) ==
    IF outs = <<>> THEN [exc |-> "none", items |-> <<>>]
    ELSE LET h == Head(outs)
             rest == try_loop(Tail(outs))
         IN  IF h.exc \in {"ValueError", "TypeError"} THEN rest
             ELSE IF h.exc # "none" THEN [exc |-> h.exc, items |-> <<>>]
             ELSE IF rest.exc # "none" THEN rest
             ELSE [exc |-> "none", items |-> <<h.item>> \o rest.items]

\* for ...: <body>; append     (no try: the first exception leaves the loop)
RECURSIVE plain_loop(_)
plain_loop(outs) ==
    IF outs = <<>> THEN [exc |-> "none", items |-> <<>>]
    ELSE LET h == Head(outs)
             rest == plain_loop(Tail(outs))
         IN  IF h.exc # "none" THEN [exc |-> h.exc, items |-> <<>>]
             ELSE IF rest.exc # "none" THEN rest
             ELSE [exc |-> "none", items |-> <<h.item>> \o rest.items]

\* A slip: the level compared without .lower()
level_or_beginner_case_sensitive(v) ==
    LET raw == get(v, JStr(s_beginner))
    IN  IF ~IsStr(raw) THEN [exc |-> "AttributeError", s |-> <<>>]
        ELSE IF InSeq(raw.s, valid_levels) THEN [exc |-> "none", s |-> raw.s]
        ELSE [exc |-> "none", s |-> s_beginner]

\* the level lookup shared by skills and requirements:
\* x.get(key, "beginner").lower(), replaced by "beginner" when not valid
level_or_beginner(v) ==
    LET raw == get(v, JStr(s_beginner))
        lowered == lower(raw.s)
    IN  IF ~IsStr(raw) THEN [exc |-> "AttributeError", s |-> <<>>]
        ELSE IF InSeq(lowered, valid_levels) THEN [exc |-> "none", s |-> lowered]
        ELSE [exc |-> "none", s |-> s_beginner]

\* convert_to_cv_entity, body of the skills loop
cv_skill_body(skill_data) ==
    LET level_str == level_or_beginner(skill_data.level)
        level == SkillLevel(level_str.s)
        none == MkSkill(JNull, "None")
    IN  IF skill_data.t # "map" THEN [exc |-> "AttributeError", item |-> none]
        ELSE IF level_str.exc # "none" THEN [exc |-> level_str.exc, item |-> none]
        ELSE IF level.exc # "none" THEN [exc |-> level.exc, item |-> none]
        ELSE [exc |-> "none",
              item |-> MkSkill(get(skill_data.name, JStr(<<>>)), level.v)]

\* convert_to_cv_entity, body of the education loop
cv_education_body(edu_data) ==
    IF edu_data.t # "map"
    THEN [exc |-> "AttributeError", item |-> MkEducation(JNull)]
    ELSE [exc |-> "none", item |-> MkEducation(get(edu_data.degree, JStr(<<>>)))]

\* convert_to_cv_entity, body of the experience loop
cv_experience_body(exp_data) ==
    IF exp_data.t # "map"
    THEN [exc |-> "AttributeError", item |-> MkExperience(JNull, LNull)]
    ELSE [exc |-> "none",
          item |-> MkExperience(get(exp_data.duration_months, JNum(0)),
                                get_list(exp_data.skills_used))]

\* convert_to_cv_entity: [exc, cv]
convert_to_cv_entity(data) ==
    LET skills_it == iterate(get_list(data.skills))
        skills == try_loop([i \in 1..Len(skills_it.items) |->
                               cv_skill_body(skills_it.items[i])])
        education_it == iterate(get_list(data.education))
        education == plain_loop([i \in 1..Len(education_it.items) |->
                                    cv_education_body(education_it.items[i])])
        experience_it == iterate(get_list(data.experience))
        experience == plain_loop([i \in 1..Len(experience_it.items) |->
                                     cv_experience_body(experience_it.items[i])])
        failed(e) == [exc |-> e, cv |-> NoCV]
    IN  IF skills_it.exc # "none" THEN failed(skills_it.exc)
        ELSE IF skills.exc # "none" THEN failed(skills.exc)
        ELSE IF education_it.exc # "none" THEN failed(education_it.exc)
        ELSE IF education.exc # "none" THEN failed(education.exc)
        ELSE IF experience_it.exc # "none" THEN failed(experience_it.exc)
        ELSE IF experience.exc # "none" THEN failed(experience.exc)
        ELSE [exc |-> "none",
              cv |-> [MkCV("", skills.items, experience.items, education.items)
                         EXCEPT !.certifications =
                                    post_init_list(get_list(data.certifications)),
                                !.languages =
                                    post_init_list(get_list(data.languages))]]

\* A slip: a preferred skill takes is_mandatory from the payload as a required
\* one does
job_requirement_body_payload_mandatory(skill_data, preferred) ==
    LET level_str == level_or_beginner(skill_data.required_level)
        level == SkillLevel(level_str.s)
        none == MkRequirement(JNull, "None", JNull, JNull)
    IN  IF skill_data.t # "map" THEN [exc |-> "AttributeError", item |-> none]
        ELSE IF level_str.exc # "none" THEN [exc |-> level_str.exc, item |-> none]
        ELSE IF level.exc # "none" THEN [exc |-> level.exc, item |-> none]
        ELSE [exc |-> "none",
              item |-> MkRequirement(
                  get(skill_data.skill, JStr(<<>>)),
                  level.v,
                  get(skill_data.is_mandatory, JBool(TRUE)),
                  get(skill_data.weight, IF preferred THEN JNum(1) ELSE JNum(2)))]

\* convert_to_job_entity, body of the required_skills / preferred_skills loop;
\* weights are in halves (1.0 is 2, 0.5 is 1)
job_requirement_body(skill_data, preferred) ==
    LET level_str == level_or_beginner(skill_data.required_level)
        level == SkillLevel(level_str.s)
        none == MkRequirement(JNull, "None", JNull, JNull)
    IN  IF skill_data.t # "map" THEN [exc |-> "AttributeError", item |-> none]
        ELSE IF level_str.exc # "none" THEN [exc |-> level_str.exc, item |-> none]
        ELSE IF level.exc # "none" THEN [exc |-> level.exc, item |-> none]
        ELSE [exc |-> "none",
              item |-> MkRequirement(
                  get(skill_data.skill, JStr(<<>>)),
                  level.v,
                  IF preferred THEN JBool(FALSE)
                  ELSE get(skill_data.is_mandatory, JBool(TRUE)),
                  get(skill_data.weight, IF preferred THEN JNum(1) ELSE JNum(2)))]

\* convert_to_job_entity: [exc, job]
convert_to_job_entity(data) ==
    LET required_it == iterate(get_list(data.required_skills))
        required == try_loop([i \in 1..Len(required_it.items) |->
                                 job_requirement_body(required_it.items[i], FALSE)])
        preferred_it == iterate(get_list(data.preferred_skills))
        preferred == try_loop([i \in 1..Len(preferred_it.items) |->
                                  job_requirement_body(preferred_it.items[i], TRUE)])
        failed(e) == [exc |-> e, job |-> NoJob]
    IN  IF required_it.exc # "none" THEN failed(required_it.exc)
        ELSE IF required.exc # "none" THEN failed(required.exc)
        ELSE IF preferred_it.exc # "none" THEN failed(preferred_it.exc)
        ELSE IF preferred.exc # "none" THEN failed(preferred.exc)
        ELSE [exc |-> "none",
              job |-> [MkJob("", required.items, preferred.items,
                             get(data.min_experience_years, JNum(0)),
                             post_init_list(get_list(data.required_education)))
                          EXCEPT !.required_certifications =
                              post_init_list(get_list(data.required_certifications))]]

\* convert_to_match_analysis: one of the two level fields of a skill match:
\* None unless the value is truthy and, lowered, a valid level
match_level(v) ==
    LET raw == get(v, JNull)
        lowered == lower(raw.s)
    IN  IF ~truthy(raw) THEN [exc |-> "none", v |-> "None"]
        ELSE IF ~IsStr(raw) THEN [exc |-> "AttributeError", v |-> "None"]
        ELSE IF InSeq(lowered, valid_levels) THEN SkillLevel(lowered)
        ELSE [exc |-> "none", v |-> "None"]

\* convert_to_match_analysis, body of the skill_matches loop
skill_match_body(match_data) ==
    LET cv_skill_level == match_level(match_data.cv_skill_level)
        required_level == match_level(match_data.required_level)
        none == MkSkillMatch(JNull, "None", "None")
    IN  IF match_data.t # "map" THEN [exc |-> "AttributeError", item |-> none]
        ELSE IF cv_skill_level.exc # "none"
             THEN [exc |-> cv_skill_level.exc, item |-> none]
        ELSE IF required_level.exc # "none"
             THEN [exc |-> required_level.exc, item |-> none]
        ELSE [exc |-> "none",
              item |-> MkSkillMatch(get(match_data.skill_name, JStr(<<>>)),
                                    cv_skill_level.v, required_level.v)]

\* convert_to_match_analysis: [exc, analysis]
convert_to_match_analysis(data, cv_id, job_id) ==
    LET matches_it == iterate(get_list(data.skill_matches))
        matches == try_loop([i \in 1..Len(matches_it.items) |->
                                skill_match_body(matches_it.items[i])])
        given == post_init_list(get_list(data.recommendations))
        failed(e) == [exc |-> e, analysis |-> NoAnalysis]
    IN  IF matches_it.exc # "none" THEN failed(matches_it.exc)
        ELSE IF matches.exc # "none" THEN failed(matches.exc)
        ELSE [exc |-> "none",
              analysis |-> [MkAnalysis(
                  cv_id, job_id,
                  get(data.overall_score, JNum(0)),
                  matches.items,
                  post_init_list(get_list(data.missing_skills)),
                  get(data.experience_gap_years, JNum(0)),
                  [i \in 1..Len(given) |-> GivenLine(given[i])])
                  EXCEPT !.skills_score = get(data.skills_score, JNum(0)),
                         !.experience_score = get(data.experience_score, JNum(0)),
                         !.education_score = get(data.education_score, JNum(0)),
                         !.matching_skills =
                             post_init_list(get_list(data.matching_skills)),
                         !.interview_tips =
                             post_init_list(get_list(data.interview_tips))]]

(***************************************************************************)
(* Inputs.                                                                 *)
(***************************************************************************)
s_python == <<"p","y">>
s_sql == <<"s","q","l">>
SkillNames == {JStr(s_python), JStr(s_sql)}

\* The entities the business rules are exercised on.
RuleScores == {Points(p) : p \in {-10, 0, 5, 30, 31, 85, 95, 98, 100, 120}}
RuleRequirements ==
    {MkRequirement(n, "beginner", JBool(m), JNum(1)) : n \in SkillNames, m \in BOOLEAN}
RuleExperience ==
    {<<>>, <<MkExperience(JNum(0), LList(<<>>))>>, <<MkExperience(JNum(6), LList(<<>>))>>,
     <<MkExperience(JNum(36), LList(<<>>))>>, <<MkExperience(JNum(18), LList(<<>>)), MkExperience(JNum(24), LList(<<>>))>>,
     <<MkExperience(JNum(120), LList(<<>>))>>}
RuleCVs ==
    {MkCV("cv1", skills, experience, <<>>) :
        skills \in SeqsUpTo({MkSkill(n, "beginner") : n \in SkillNames}, MaxSkills),
        experience \in RuleExperience}
RuleJobs ==
    {MkJob("job1", required, <<>>, JNum(min_years), <<>>) :
        required \in SeqsUpTo(RuleRequirements, MaxReqs),
        min_years \in {0, 3}}
RuleAnalyses ==
    {MkAnalysis("cv1", "job1", JNum(score), <<>>, <<>>, JNum(0), <<>>) :
        score \in RuleScores}

(***************************************************************************)
(* GeminiAIService (src/src/infrastructure/ai/__init__.py).                *)
(*                                                                         *)
(* The collaborator's text is over four characters: the braces, the blank, *)
(* and "m", which stands for a run of any other text; between the braces   *)
(* of an object it is the text of the object's members.                    *)
(***************************************************************************)
Chars == {"{", "}", " ", "m"}

count(s, c) == Cardinality({i \in 1..Len(s) : s[i] = c})

\* json.loads(s) returns (a dict) iff s is, blanks aside, "{" [members] "}"
json_loads_ok(s) ==
    LET t == strip(s)
        inner == SubSeq(t, 2, Len(t) - 1)
    IN  /\ Len(t) >= 2
        /\ t[1] = "{"
        /\ t[Len(t)] = "}"
        /\ \A i \in 1..Len(inner) : inner[i] \in {" ", "m"}
        /\ count(inner, "m") <= 1

\* A slip: the slice ends before the closing brace
extract_json_without_last_brace(r) ==
    LET start_idx == find(r, "{")
        end_idx == rfind(r, "}")
    IN  IF start_idx = -1 \/ end_idx = -1
        THEN [exc |-> "AIServiceError", s |-> <<>>]
        ELSE [exc |-> "none", s |-> slice(r, start_idx, end_idx)]

\* GeminiAIService._extract_json_from_response: [exc, s]
extract_json_from_response(r) ==
    LET start_idx == find(r, "{")
        end_idx == rfind(r, "}")
    IN  IF start_idx = -1 \/ end_idx = -1
        THEN [exc |-> "AIServiceError", s |-> <<>>]
        ELSE [exc |-> "none", s |-> slice(r, start_idx, end_idx + 1)]

\* the except clauses that close extract_cv_data, analyze_job_description and
\* calculate_match_score: what leaves the operation when exc was raised in it
operation_except(exc, cause) ==
    IF exc = "JSONDecodeError"
    THEN Raise("AIServiceError", "Invalid JSON response from AI", cause)
    ELSE Raise("AIServiceError", "Failed to", cause)

\* match_cv_job's except clause
match_cv_job_except(err) ==
    Raise("AIServiceError", "Failed to match CV and job", err.cause)

\* the except clause of the POST /api/v1/match route
route_match_except(err) == HTTPException(500, "Matching failed", err.cause)

\* what leaves the top-level operation o when err left the service operation
outward(o, err) ==
    IF o = "match_cv_job" THEN route_match_except(match_cv_job_except(err)) ELSE err

\* cv.id or "unknown"
id_or_unknown(id) == IF id = "" THEN "unknown" ELSE id

ServiceOps == {"extract_cv_data", "analyze_job_description", "calculate_match_score"}
MatchOps == {"calculate_match_score", "create_match_analysis", "match_cv_job"}

NoResult == [kind |-> "none", cv |-> NoCV, job |-> NoJob, analysis |-> NoAnalysis]

(***************************************************************************)
(* Inputs of the service operations.                                       *)
(***************************************************************************)
Texts == SeqsUpTo(Chars, MaxLen)

s_ninja == <<"n","i","n","j","a">>
LevelValues ==
    {JMissing, JNull, JNum(5), JStr(<<>>), JStr(s_ninja), JStr(s_beginner),
     JStr(<<"I","n","t","e","r","m","e","d","i","a","t","e">>),
     JStr(<<"A","D","V","A","N","C","E","D">>),
     JStr(<<"e","X","p","e","r","t">>)}
RequirementLevelValues ==
    {JMissing, JNull, JStr(s_ninja), JStr(s_beginner),
     JStr(<<"A","D","V","A","N","C","E","D">>)}
MatchLevelValues ==
    {JMissing, JNull, JNum(5), JStr(s_ninja), JStr(s_beginner),
     JStr(<<"e","X","p","e","r","t">>)}

NotAMapping(fields) == [k \in fields |-> JMissing] @@ [t |-> "str"]
SkillFields == {"name", "level"}
RequirementFields == {"skill", "required_level", "is_mandatory", "weight"}
MatchFields == {"skill_name", "cv_skill_level", "required_level"}

SkillRecords ==
    {[t |-> "map", name |-> JStr(s_python), level |-> l] : l \in LevelValues}
        \cup {NotAMapping(SkillFields)}
RequirementRecords ==
    {[t |-> "map", skill |-> JStr(s_python), required_level |-> l,
      is_mandatory |-> JMissing, weight |-> JMissing] : l \in RequirementLevelValues}
        \cup {[t |-> "map", skill |-> JStr(s_sql), required_level |-> JStr(s_expert),
               is_mandatory |-> m, weight |-> JNum(3)] :
                 m \in {JBool(TRUE), JBool(FALSE)}}
        \cup {NotAMapping(RequirementFields)}
MatchRecords ==
    {[t |-> "map", skill_name |-> JStr(s_python), cv_skill_level |-> c,
      required_level |-> r] : c \in MatchLevelValues, r \in MatchLevelValues}
        \cup {NotAMapping(MatchFields)}

ExperienceFields == {"duration_months", "skills_used"}
ExperienceRecords ==
    {[t |-> "map", duration_months |-> JMissing, skills_used |-> LMissing],
     [t |-> "map", duration_months |-> JNum(36),
      skills_used |-> LList(<<JStr(s_python)>>)],
     [t |-> "map", duration_months |-> JNum(6), skills_used |-> LNull],
     [t |-> "map", duration_months |-> JStr(<<"2"," ","y","r","s">>),
      skills_used |-> LMissing],
     [t |-> "map", duration_months |-> JNull, skills_used |-> LList(<<>>)]}
        \cup {NotAMapping(ExperienceFields)}

\* what a payload has under the key of a list of strings
StringLists == {LNull, LList(<<JStr(s_python)>>)}

EmptyCVPayload ==
    [skills |-> LMissing, education |-> LMissing, experience |-> LMissing,
     certifications |-> LMissing, languages |-> LMissing]
EmptyJobPayload ==
    [required_skills |-> LMissing, preferred_skills |-> LMissing,
     min_experience_years |-> JMissing, required_education |-> LMissing,
     required_certifications |-> LMissing]
EmptyMatchPayload ==
    [overall_score |-> JMissing, skills_score |-> JMissing,
     experience_score |-> JMissing, education_score |-> JMissing,
     skill_matches |-> LMissing,
     missing_skills |-> LMissing, matching_skills |-> LMissing,
     experience_gap_years |-> JMissing,
     recommendations |-> LMissing, interview_tips |-> LMissing]

CVPayloads ==
    {[EmptyCVPayload EXCEPT !.skills = LList(q)] : q \in SeqsUpTo(SkillRecords, MaxRecs)}
        \cup {[EmptyCVPayload EXCEPT !.skills = LNull]}
        \cup {[EmptyCVPayload EXCEPT
                 !.experience = LList(<<[t |-> "map", duration_months |-> d,
                                          skills_used |-> LMissing]>>),
                 !.education = LList(<<[t |-> "map", degree |-> JStr(<<"B","S","c">>)]>>)] :
                   d \in {JMissing, JNum(36)}}
        \cup {[EmptyCVPayload EXCEPT !.experience = LList(q)] :
                q \in SeqsUpTo(ExperienceRecords, MaxRecs)}
        \cup {[EmptyCVPayload EXCEPT !.experience = LNull]}
        \cup {[EmptyCVPayload EXCEPT !.certifications = c, !.languages = l] :
                c \in StringLists, l \in StringLists}
JobPayloads ==
    {[EmptyJobPayload EXCEPT !.required_skills = LList(q)] :
        q \in SeqsUpTo(RequirementRecords, MaxRecs)}
        \cup {[EmptyJobPayload EXCEPT !.preferred_skills = LList(q)] :
                q \in SeqsUpTo(RequirementRecords, MaxRecs)}
        \cup {[EmptyJobPayload EXCEPT !.min_experience_years = JNum(3),
                                      !.required_education = e] :
                e \in {LNull, LList(<<JStr(<<"B","S","c">>)>>)}}
        \cup {[EmptyJobPayload EXCEPT !.required_certifications = c] :
                c \in StringLists}
MatchPayloads ==
    {[EmptyMatchPayload EXCEPT !.overall_score = JNum(Points(95)),
                               !.skill_matches = LList(q)] :
        q \in SeqsUpTo(MatchRecords, MaxMatches)}
        \cup {[EmptyMatchPayload EXCEPT !.overall_score = v,
                                        !.missing_skills = LList(<<JStr(s_sql)>>),
                                        !.experience_gap_years = g,
                                        !.recommendations = r] :
                v \in {JMissing, JNum(Points(5)), JNum(Points(120)),
                       JStr(<<"8","5">>)},
                g \in {JNum(3), JNull},
                r \in {LNull, LList(<<JStr(<<"r","1">>)>>)}}
        \cup {[EmptyMatchPayload EXCEPT !.matching_skills = m,
                                        !.interview_tips = t] :
                m \in StringLists, t \in StringLists}

NoPayload == [kind |-> "none", cv |-> EmptyCVPayload, job |-> EmptyJobPayload,
              match |-> EmptyMatchPayload]
CVPayload(d) == [NoPayload EXCEPT !.kind = "cv", !.cv = d]
JobPayload(d) == [NoPayload EXCEPT !.kind = "job", !.job = d]
MatchPayload(d) == [NoPayload EXCEPT !.kind = "match", !.match = d]

\* the dicts json.loads can return for the operation o on the text s: the
\* empty object when s has no members, any payload of o's schema otherwise
PayloadsOf(o, s) ==
    IF count(s, "m") = 0
    THEN CASE o = "extract_cv_data" -> {CVPayload(EmptyCVPayload)}
           [] o = "analyze_job_description" -> {JobPayload(EmptyJobPayload)}
           [] OTHER -> {MatchPayload(EmptyMatchPayload)}
    ELSE CASE o = "extract_cv_data" -> {CVPayload(d) : d \in CVPayloads}
           [] o = "analyze_job_description" -> {JobPayload(d) : d \in JobPayloads}
           [] OTHER -> {MatchPayload(d) : d \in MatchPayloads}

\* the (CV, Job) pairs the match operations are called with
PipePairs ==
    {[cv |-> MkCV("cv1", <<MkSkill(JStr(s_python), "expert")>>,
                  <<MkExperience(JNum(36), LList(<<>>))>>, <<MkEducation(JStr(<<"m","s","c">>))>>),
      job |-> MkJob("job1",
                    <<MkRequirement(JStr(s_python), "advanced", JBool(TRUE), JNum(2)),
                      MkRequirement(JStr(s_sql), "beginner", JBool(TRUE), JNum(2))>>,
                    <<>>, JNum(0), <<JStr(<<"B","S","c">>)>>)],
     [cv |-> MkCV("", <<>>, <<>>, <<>>),
      job |-> MkJob("", <<>>, <<>>, JNum(5), <<>>)]}

\* the body of a POST /api/v1/match request: for each of 'cv' and 'job', the
\* key absent, an empty dict, a dict the entity is built from, or a dict one of
\* whose skills has a level that is no SkillLevel value
RequestData == {"absent", "empty", "ok", "bad_level"}
NoRequest == [cv |-> "absent", job |-> "absent"]
MatchRequests == {[cv |-> c, job |-> j] : c \in RequestData, j \in RequestData}
KeyValues == {"", "key"}
SettingsValues == {[google_api_key |-> g, openai_api_key |-> ""] : g \in KeyValues}

\* no AI service object, no upload in progress, no health answer yet
NoService == "none"
NoContent == [size |-> 0, header |-> FALSE, pages |-> 0, plumber |-> <<>>, pypdf2 |-> <<>>]
NoFile == [filename |-> <<>>, content |-> NoContent]
NoUpload ==
    [pc |-> "none", file |-> NoFile, file_content |-> NoContent, checks |-> <<>>,
     failed_at |-> "none", raw_text |-> <<>>, cv |-> NoCV, dir |-> {},
     status |-> 0, detail |-> ""]
NoHealth == [status |-> "none", ai_service_configured |-> FALSE]

\* Settings.max_file_size_bytes
max_file_size_bytes(s) == s.max_file_size_mb * 1024 * 1024

\* Settings.is_ai_configured
is_ai_configured(s) == s.google_api_key # "" \/ s.openai_api_key # ""

\* GeminiAIService.__init__: [exc, msg, service]
GeminiAIService_init(s) ==
    IF s.google_api_key = ""
    THEN [exc |-> "ValueError", msg |-> "Google API key not configured",
          service |-> NoService]
    ELSE [exc |-> "none", msg |-> "", service |-> "GeminiAIService"]

\* create_ai_service: [exc, msg, service]
create_ai_service(s) ==
    IF s.google_api_key # ""
    THEN GeminiAIService_init(s)
    ELSE [exc |-> "ValueError", msg |-> "Google Gemini API key not configured",
          service |-> NoService]

(***************************************************************************)
(* Spec: the operations of the AI service, of the matching service and of  *)
(* the match route, one at a time.                                         *)
(***************************************************************************)
Idle ==
    /\ op = "none"
    /\ pc = "idle"
    /\ request = NoRequest
    /\ cv = NoCV
    /\ job = NoJob
    /\ raw_response = <<>>
    /\ response = <<>>
    /\ parser_input = <<>>
    /\ payload = NoPayload
    /\ analysis_in = NoAnalysis
    /\ analysis = NoAnalysis
    /\ result = NoResult
    /\ error = NoError
    /\ generate_calls = 0
    /\ parser_calls = 0
    /\ converter_calls = 0
    /\ rules_applied = FALSE
    /\ args = NoArgs
    /\ value = NoValue
    /\ tasks = NoTasks
    /\ ai_service = NoService
    /\ upload = NoUpload
    /\ health = NoHealth

Init == settings \in SettingsValues /\ Idle

Fail(err) ==
    /\ pc' = "failed"
    /\ error' = outward(op, err)

\* a caller invokes one of the service operations or create_match_analysis
Call ==
    /\ pc = "idle"
    /\ \E o \in ServiceOps \cup {"create_match_analysis"} :
          /\ op' = o
          /\ IF o \in MatchOps
             THEN \E pair \in PipePairs : cv' = pair.cv /\ job' = pair.job
             ELSE UNCHANGED <<cv, job>>
    /\ pc' = "generate"
    /\ UNCHANGED <<entity, tasks, web, settings, request, texts, payload, analysis_in, analysis, result,
                   error, calls, rules_applied>>

\* a client posts to /api/v1/match
RouteMatchRequest ==
    /\ pc = "idle"
    /\ op' = "match_cv_job"
    /\ request' \in MatchRequests
    /\ pc' = "route"
    /\ UNCHANGED <<entity, tasks, web, settings, cv, job, texts, payload, analysis_in, analysis, result,
                   error, calls, rules_applied>>

\* routes/match.py match_cv_job up to the call of the service, then
\* GeminiAIService.match_cv_job up to its call of calculate_match_score
RouteMatchEnter ==
    /\ pc = "route"
    /\ LET made == GeminiAIService_init(settings)
       IN  IF request.cv \in {"absent", "empty"} \/ request.job \in {"absent", "empty"}
           THEN /\ Fail(HTTPException(400, "Both 'cv' and 'job' data are required",
                                      "missing_data"))
                /\ UNCHANGED <<cv, job, ai_service>>
           ELSE IF made.exc # "none"
           THEN /\ Fail(Raise(made.exc, made.msg, "not_configured"))
                /\ UNCHANGED <<cv, job, ai_service>>
           ELSE IF request.cv = "bad_level" \/ request.job = "bad_level"
           THEN /\ Fail(Raise("ValueError", "not a valid SkillLevel", "bad_level"))
                /\ ai_service' = made.service
                /\ UNCHANGED <<cv, job>>
           ELSE /\ \E pair \in PipePairs : cv' = pair.cv /\ job' = pair.job
                /\ ai_service' = made.service
                /\ pc' = "generate"
                /\ UNCHANGED error
    /\ UNCHANGED <<entity, tasks, upload, health, settings, op, request, texts, payload,
                   analysis_in, analysis, result, calls, rules_applied>>

\* A retry policy the code does not have: a failed generate call is repeated once
GenerateContentWithRetry ==
    /\ pc = "generate"
    /\ generate_calls' = generate_calls + 1
    /\ UNCHANGED <<parser_calls, converter_calls, parser_input>>
    /\ \/ \E text \in Texts :
             /\ raw_response' = text
             /\ response' = text
             /\ pc' = "strip"
             /\ UNCHANGED error
       \/ /\ generate_calls < 1
          /\ UNCHANGED <<pc, error, raw_response, response>>
       \/ /\ generate_calls >= 1
          /\ Fail(operation_except("AIServiceError", "transport"))
          /\ UNCHANGED <<raw_response, response>>
    /\ UNCHANGED <<entity, tasks, web, inputs, op, payload, analysis_in, analysis, result, rules_applied>>

\* the prompt is built and _generate_content called: the collaborator answers
\* with a text or fails
GenerateContent ==
    /\ pc = "generate"
    /\ IF op \in MatchOps /\ total_experience_years(cv).exc # "none"
       THEN /\ Fail(operation_except(total_experience_years(cv).exc, "prompt"))
            /\ UNCHANGED <<texts, calls>>
       ELSE /\ generate_calls' = generate_calls + 1
            /\ UNCHANGED <<parser_calls, converter_calls, parser_input>>
            /\ \/ \E text \in Texts :
                     /\ raw_response' = text
                     /\ response' = text
                     /\ pc' = "strip"
                     /\ UNCHANGED error
               \/ /\ Fail(operation_except("AIServiceError", "transport"))
                  /\ UNCHANGED <<raw_response, response>>
    /\ UNCHANGED <<entity, tasks, web, inputs, op, payload, analysis_in, analysis, result, rules_applied>>

\* response = response.strip(); an empty response is an error
StripResponse ==
    /\ pc = "strip"
    /\ response' = strip(response)
    /\ IF strip(response) = <<>>
       THEN Fail(operation_except("AIServiceError", "empty"))
       ELSE pc' = "extract" /\ UNCHANGED error
    /\ UNCHANGED <<entity, tasks, web, inputs, op, raw_response, parser_input, payload, analysis_in,
                   analysis, result, calls, rules_applied>>

\* response = self._extract_json_from_response(response)
ExtractJson ==
    /\ pc = "extract"
    /\ LET r == extract_json_from_response(response)
       IN  IF r.exc # "none"
           THEN Fail(operation_except(r.exc, "no_json")) /\ UNCHANGED response
           ELSE response' = r.s /\ pc' = "parse" /\ UNCHANGED error
    /\ UNCHANGED <<entity, tasks, web, inputs, op, raw_response, parser_input, payload, analysis_in,
                   analysis, result, calls, rules_applied>>

\* json.loads(response)
ParseJson ==
    /\ pc = "parse"
    /\ parser_calls' = parser_calls + 1
    /\ parser_input' = response
    /\ IF json_loads_ok(response)
       THEN /\ payload' \in PayloadsOf(op, response)
            /\ pc' = "convert"
            /\ UNCHANGED error
       ELSE /\ Fail(operation_except("JSONDecodeError", "invalid_json"))
            /\ UNCHANGED payload
    /\ UNCHANGED <<entity, tasks, web, inputs, op, raw_response, response, analysis_in, analysis, result,
                   generate_calls, converter_calls, rules_applied>>

\* the payload is converted to the operation's entity
Convert ==
    /\ pc = "convert"
    /\ converter_calls' = converter_calls + 1
    /\ LET c == convert_to_cv_entity(payload.cv)
           j == convert_to_job_entity(payload.job)
           a == convert_to_match_analysis(payload.match, id_or_unknown(cv.id),
                                          id_or_unknown(job.id))
       IN  CASE op = "extract_cv_data" ->
                  IF c.exc # "none"
                  THEN Fail(operation_except(c.exc, "conversion"))
                       /\ UNCHANGED <<analysis, result>>
                  ELSE /\ result' = [NoResult EXCEPT !.kind = "CV", !.cv = c.cv]
                       /\ pc' = "returned"
                       /\ UNCHANGED <<analysis, error>>
             [] op = "analyze_job_description" ->
                  IF j.exc # "none"
                  THEN Fail(operation_except(j.exc, "conversion"))
                       /\ UNCHANGED <<analysis, result>>
                  ELSE /\ result' = [NoResult EXCEPT !.kind = "Job", !.job = j.job]
                       /\ pc' = "returned"
                       /\ UNCHANGED <<analysis, error>>
             [] OTHER ->
                  IF a.exc # "none"
                  THEN Fail(operation_except(a.exc, "conversion"))
                       /\ UNCHANGED <<analysis, result>>
                  ELSE /\ analysis' = a.analysis
                       /\ UNCHANGED error
                       /\ CASE op = "calculate_match_score" ->
                                 /\ result' = [NoResult EXCEPT
                                                 !.kind = "MatchAnalysis",
                                                 !.analysis = a.analysis]
                                 /\ pc' = "returned"
                            [] op = "create_match_analysis" ->
                                 pc' = "rules" /\ UNCHANGED result
                            [] OTHER ->
                                 pc' = "build" /\ UNCHANGED result
    /\ UNCHANGED <<entity, tasks, web, inputs, op, texts, payload, analysis_in, generate_calls,
                   parser_calls, rules_applied>>

\* create_match_analysis: analysis = self._apply_business_rules(analysis, cv, job)
ApplyRules ==
    /\ pc = "rules"
    /\ analysis_in' = analysis
    /\ rules_applied' = TRUE
    /\ LET r == apply_business_rules(analysis, cv, job)
       IN  /\ analysis' = r.a
           /\ IF r.exc # "none"
              THEN Fail(Raise(r.exc, "", "rules")) /\ UNCHANGED result
              ELSE /\ result' = [NoResult EXCEPT !.kind = "MatchAnalysis",
                                                 !.analysis = r.a]
                   /\ pc' = "returned"
                   /\ UNCHANGED error
    /\ UNCHANGED <<entity, tasks, web, inputs, op, texts, payload, calls>>

\* GeminiAIService.match_cv_job: the analysis is turned into the response dict,
\* which the route returns
BuildMatchResult ==
    /\ pc = "build"
    /\ result' = [NoResult EXCEPT !.kind = "dict", !.analysis = analysis]
    /\ pc' = "returned"
    /\ UNCHANGED <<entity, tasks, web, inputs, op, texts, payload, analysis_in, analysis, error, calls,
                   rules_applied>>

\* the caller has the result or the exception; the operation is over
Finish ==
    /\ pc \in {"returned", "failed"}
    /\ op' = "none"
    /\ pc' = "idle"
    /\ request' = NoRequest
    /\ cv' = NoCV
    /\ job' = NoJob
    /\ raw_response' = <<>>
    /\ response' = <<>>
    /\ parser_input' = <<>>
    /\ payload' = NoPayload
    /\ analysis_in' = NoAnalysis
    /\ analysis' = NoAnalysis
    /\ result' = NoResult
    /\ error' = NoError
    /\ generate_calls' = 0
    /\ parser_calls' = 0
    /\ converter_calls' = 0
    /\ rules_applied' = FALSE
    /\ ai_service' = NoService
    /\ UNCHANGED <<settings, entity, tasks, upload, health>>

Next ==
    \/ Call
    \/ RouteMatchRequest
    \/ RouteMatchEnter
    \/ GenerateContent
    \/ StripResponse
    \/ ExtractJson
    \/ ParseJson
    \/ Convert
    \/ ApplyRules
    \/ BuildMatchResult
    \/ Finish

Spec == Init /\ [][Next]_vars

(***************************************************************************)
(* SpecRules: _apply_business_rules on its own, over RuleAnalyses, RuleCVs *)
(* and RuleJobs.                                                           *)
(***************************************************************************)
InitRules ==
    /\ settings = [google_api_key |-> "key", openai_api_key |-> ""]
    /\ op = "_apply_business_rules"
    /\ pc = "call"
    /\ request = NoRequest
    /\ cv \in RuleCVs
    /\ job \in RuleJobs
    /\ raw_response = <<>>
    /\ response = <<>>
    /\ parser_input = <<>>
    /\ payload = NoPayload
    /\ analysis_in \in RuleAnalyses
    /\ analysis = analysis_in
    /\ result = NoResult
    /\ error = NoError
    /\ generate_calls = 0
    /\ parser_calls = 0
    /\ converter_calls = 0
    /\ rules_applied = FALSE
    /\ args = NoArgs
    /\ value = NoValue
    /\ tasks = NoTasks
    /\ ai_service = NoService
    /\ upload = NoUpload
    /\ health = NoHealth

ApplyBusinessRules ==
    /\ op = "_apply_business_rules"
    /\ pc = "call"
    /\ rules_applied' = TRUE
    /\ LET r == apply_business_rules(analysis, cv, job)
       IN  /\ analysis' = r.a
           /\ error' = IF r.exc = "none" THEN NoError ELSE Raise(r.exc, "", "rules")
           /\ pc' = IF r.exc = "none" THEN "returned" ELSE "failed"
           /\ result' = IF r.exc = "none"
                        THEN [NoResult EXCEPT !.kind = "MatchAnalysis", !.analysis = r.a]
                        ELSE NoResult
    /\ UNCHANGED <<entity, tasks, web, inputs, op, texts, payload, analysis_in, calls>>

NextRules == ApplyBusinessRules

SpecRules == InitRules /\ [][NextRules]_vars

(***************************************************************************)
(* SpecRecs: _apply_business_rules over the inputs its recommendation      *)
(* steps depend on: missing_skills, experience_gap_years (in quarters of a *)
(* year), the recommendations already given, and the two education lists.  *)
(***************************************************************************)
s_bsc == <<"b","s","c">>
s_msc == <<"m","s","c">>
RecDegrees == {JStr(<<"B","S","c">>), JStr(s_msc)}
RecRequiredEducation == {JStr(s_bsc), JStr(<<"M","S","c">>), JStr(<<"P","h","D">>)}
RecGaps == {-4, 0, 1, 2, 3, 10}
RecGiven == {<<>>, <<GivenLine(JStr(<<"r","1">>))>>}
RecCVs ==
    {MkCV("cv1", <<MkSkill(JStr(s_python), "expert")>>,
          <<MkExperience(JNum(36), LList(<<>>))>>, education) :
        education \in SeqsUpTo({MkEducation(d) : d \in RecDegrees}, MaxEdu)}
RecJobs ==
    {MkJob("job1", <<>>, <<>>, JNum(0), education) :
        education \in SeqsUpTo(RecRequiredEducation, MaxEdu)}
RecAnalyses ==
    {[MkAnalysis("cv1", "job1", JNum(Points(50)),
                 <<MkSkillMatch(JStr(s_python), "expert", "advanced")>>,
                 missing, JNum(gap), given)
         EXCEPT !.skills_score = JNum(Points(70)),
                !.experience_score = JNum(Points(60)),
                !.education_score = JNum(Points(40)),
                !.matching_skills = <<JStr(s_python)>>,
                !.interview_tips = <<JStr(<<"t","1">>)>>] :
        missing \in SeqsUpTo(SkillNames, MaxMissing),
        gap \in RecGaps,
        given \in RecGiven}

InitRecs ==
    /\ settings = [google_api_key |-> "key", openai_api_key |-> ""]
    /\ op = "_apply_business_rules"
    /\ pc = "call"
    /\ request = NoRequest
    /\ cv \in RecCVs
    /\ job \in RecJobs
    /\ raw_response = <<>>
    /\ response = <<>>
    /\ parser_input = <<>>
    /\ payload = NoPayload
    /\ analysis_in \in RecAnalyses
    /\ analysis = analysis_in
    /\ result = NoResult
    /\ error = NoError
    /\ generate_calls = 0
    /\ parser_calls = 0
    /\ converter_calls = 0
    /\ rules_applied = FALSE
    /\ args = NoArgs
    /\ value = NoValue
    /\ tasks = NoTasks
    /\ ai_service = NoService
    /\ upload = NoUpload
    /\ health = NoHealth

SpecRecs == InitRecs /\ [][NextRules]_vars

(***************************************************************************)
(* SpecEntities: the entity constructors, the properties of Match and      *)
(* validate_cv, each called on arguments of the sets below.                *)
(***************************************************************************)
\* what a constructor is given for a list field: nothing, None, or a list
ListArgs == {LMissing, LNull, LList(<<>>), LList(<<JStr(s_python), JStr(s_sql)>>)}
CVListFields == {"skills", "education", "experience", "certifications", "languages"}
JobListFields ==
    {"required_skills", "preferred_skills", "required_education",
     "required_certifications"}
MatchAnalysisListFields ==
    {"skill_matches", "missing_skills", "matching_skills", "recommendations",
     "interview_tips"}

\* overall_score values around the boundaries, in sixths of a point
MatchScores ==
    {Points(p) : p \in {-10, 0, 39, 40, 41, 59, 60, 61, 79, 80, 81, 100, 120}}
        \cup {Points(p) - 1 : p \in {40, 60, 80}}
Matches ==
    {MkMatch(id, status, a) :
        id \in {"", "m1"},
        status \in MatchStatus,
        a \in {NoMatchAnalysis} \cup {SomeMatchAnalysis(n) : n \in MatchScores}}

ValidationTexts == SeqsUpTo({" ", "\n", "m"}, MaxText)
Filenames == {<<>>, <<" ">>, <<"c","v">>}
ValidationCVs ==
    {[MkCV("", <<>>, <<>>, <<>>) EXCEPT !.raw_text = t, !.filename = f] :
        t \in ValidationTexts, f \in Filenames}

ValidationJobs ==
    {[MkJob("", <<>>, <<>>, JNum(years), <<>>)
         EXCEPT !.title = t, !.description = d] :
        t \in ValidationTexts, d \in ValidationTexts, years \in {-1, 0, 3}}
Identifiers == {JNull} \cup {JStr(t) : t \in ValidationTexts}

InitEntities ==
    /\ settings = [google_api_key |-> "key", openai_api_key |-> ""]
    /\ Idle

\* the call of an entity-level function: its arguments and what it returns
Returns(name, a, v) ==
    /\ pc = "idle"
    /\ op' = name
    /\ pc' = "returned"
    /\ args' = a
    /\ value' = v
    /\ UNCHANGED <<inputs, texts, payload, analysis_in, analysis, result, error,
                   calls, rules_applied, tasks, web>>

ConstructCV ==
    \E kw \in [CVListFields -> ListArgs] : Returns("CV", kw, CV_post_init(kw))

ConstructJob ==
    \E kw \in [JobListFields -> ListArgs] : Returns("Job", kw, Job_post_init(kw))

ConstructMatchAnalysis ==
    \E kw \in [MatchAnalysisListFields -> ListArgs] :
        Returns("MatchAnalysis", kw, MatchAnalysis_post_init(kw))

ReadIsCompleted ==
    \E m \in Matches :
        Returns("Match.is_completed", m, [kind |-> "bool", b |-> is_completed(m)])

ReadRecommendationLevel ==
    \E m \in Matches :
        Returns("Match.recommendation_level", m,
                [kind |-> "str", label |-> recommendation_level(m)])

ValidateCV ==
    \E c \in ValidationCVs :
        Returns("validate_cv", c, [kind |-> "list", errors |-> validate_cv(c)])

ValidateJob ==
    \E j \in ValidationJobs :
        Returns("validate_job", j, [kind |-> "list", errors |-> validate_job(j)])

ValidateMatchRequest ==
    \E cv_id \in Identifiers, job_id \in Identifiers :
        LET r == validate_match_request(cv_id, job_id)
        IN  Returns("validate_match_request", [cv_id |-> cv_id, job_id |-> job_id],
                    [kind |-> "list", exc |-> r.exc, errors |-> r.errors])

\* the caller has the value; the call is over
EndCall ==
    /\ pc = "returned"
    /\ op' = "none"
    /\ pc' = "idle"
    /\ args' = NoArgs
    /\ value' = NoValue
    /\ UNCHANGED <<inputs, texts, payload, analysis_in, analysis, result, error,
                   calls, rules_applied, tasks, web>>

NextEntities ==
    \/ ConstructCV
    \/ ConstructJob
    \/ ConstructMatchAnalysis
    \/ ReadIsCompleted
    \/ ReadRecommendationLevel
    \/ ValidateCV
    \/ ValidateJob
    \/ ValidateMatchRequest
    \/ EndCall

SpecEntities == InitEntities /\ [][NextEntities]_vars

(***************************************************************************)
(* SpecConcurrent: MaxTasks create_match_analysis coroutines on one event  *)
(* loop, interleaved at their awaits. A coroutine's cv, job and analysis   *)
(* are locals of its own frame; the service objects hold no analysis.      *)
(***************************************************************************)
Tasks == 1..MaxTasks

\* what the collaborator answers a match prompt with: a parsed payload
ConcurrentPayloads ==
    {[EmptyMatchPayload EXCEPT !.overall_score = JNum(Points(95))],
     [EmptyMatchPayload EXCEPT !.overall_score = JNum(Points(5)),
                               !.missing_skills = LList(<<JStr(s_sql)>>),
                               !.experience_gap_years = JNum(3)],
     [EmptyMatchPayload EXCEPT !.experience_gap_years = JNull]}

NewTask ==
    [pc |-> "idle", cv |-> NoCV, job |-> NoJob, payload |-> EmptyMatchPayload,
     analysis |-> NoAnalysis, result |-> NoAnalysis, exc |-> "none"]

InitConcurrent ==
    /\ settings = [google_api_key |-> "key", openai_api_key |-> ""]
    /\ op = "none"
    /\ pc = "idle"
    /\ request = NoRequest
    /\ cv = NoCV
    /\ job = NoJob
    /\ raw_response = <<>>
    /\ response = <<>>
    /\ parser_input = <<>>
    /\ payload = NoPayload
    /\ analysis_in = NoAnalysis
    /\ analysis = NoAnalysis
    /\ result = NoResult
    /\ error = NoError
    /\ generate_calls = 0
    /\ parser_calls = 0
    /\ converter_calls = 0
    /\ rules_applied = FALSE
    /\ args = NoArgs
    /\ value = NoValue
    /\ tasks = [t \in Tasks |-> NewTask]
    /\ ai_service = NoService
    /\ upload = NoUpload
    /\ health = NoHealth

\* A slip: the analysis kept in an attribute of the one service object
analysis_owner_shared(t) == 1

\* where the `analysis` of coroutine t lives: a local of t's own frame
analysis_owner(t) == t

\* create_match_analysis(cv, job) is called and runs to the await of
\* calculate_match_score, and in it to the await of _generate_content
TaskCall(t) ==
    /\ tasks[t].pc = "idle"
    /\ \E pair \in PipePairs :
          tasks' = [tasks EXCEPT ![t].pc = "generate",
                                 ![t].cv = pair.cv,
                                 ![t].job = pair.job]
    /\ UNCHANGED <<inputs, op, pc, texts, payload, analysis_in, analysis, result,
                   error, calls, rules_applied, entity, web>>

\* the collaborator answers t's prompt; calculate_match_score converts the
\* payload and returns the analysis to create_match_analysis
TaskAnswer(t) ==
    /\ tasks[t].pc = "generate"
    /\ \E d \in ConcurrentPayloads :
          LET a == convert_to_match_analysis(d, id_or_unknown(tasks[t].cv.id),
                                             id_or_unknown(tasks[t].job.id))
          IN  IF a.exc # "none"
              THEN tasks' = [tasks EXCEPT ![t].pc = "failed",
                                          ![t].payload = d,
                                          ![t].exc = "AIServiceError"]
              ELSE tasks' = [tasks EXCEPT ![t].pc = "rules",
                                          ![t].payload = d,
                                          ![analysis_owner(t)].analysis = a.analysis]
    /\ UNCHANGED <<inputs, op, pc, texts, payload, analysis_in, analysis, result,
                   error, calls, rules_applied, entity, web>>

\* analysis = self._apply_business_rules(analysis, cv, job); return analysis
TaskRules(t) ==
    /\ tasks[t].pc = "rules"
    /\ LET r == apply_business_rules(tasks[analysis_owner(t)].analysis,
                                     tasks[t].cv, tasks[t].job)
       IN  IF r.exc # "none"
           THEN tasks' = [tasks EXCEPT ![t].pc = "failed", ![t].exc = r.exc]
           ELSE tasks' = [tasks EXCEPT ![analysis_owner(t)].analysis = r.a,
                                       ![t].pc = "returned",
                                       ![t].result = r.a]
    /\ UNCHANGED <<inputs, op, pc, texts, payload, analysis_in, analysis, result,
                   error, calls, rules_applied, entity, web>>

NextConcurrent ==
    \E t \in Tasks :
        \/ TaskCall(t)
        \/ TaskAnswer(t)
        \/ TaskRules(t)

SpecConcurrent == InitConcurrent /\ [][NextConcurrent]_vars

(***************************************************************************)
(* SpecApi: POST /api/v1/cv/upload and GET /health, under every            *)
(* configuration of the two API keys.                                      *)
(***************************************************************************)
ApiSettings ==
    {[google_api_key |-> g, openai_api_key |-> o, max_file_size_mb |-> 10] :
        g \in KeyValues, o \in KeyValues}

\* UploadFile.filename: None (or ""), and names with and without the suffix
UploadFilenames ==
    {<<>>, <<"a", ".", "t", "x", "t">>, <<"p", "d", "f">>,
     <<"a", ".", "p", "d", "f">>, <<"A", ".", "P", "D", "F">>}

\* the text a PDF library finds on the pages
PageTexts == {<<>>, <<" ", "\n">>, <<"J", "o">>}

\* the bytes of an uploaded file: their number, whether they start with
\* "%PDF-", how many pages PyPDF2 finds (-1 when PdfReader raises), and the
\* text pdfplumber and PyPDF2 extract
UploadContents(s) ==
    LET sizes == {5, max_file_size_bytes(s), max_file_size_bytes(s) + 1}
    IN  {[size |-> n, header |-> h, pages |-> k, plumber |-> <<>>, pypdf2 |-> <<>>] :
            n \in sizes, h \in BOOLEAN, k \in {-1, 0}}
        \cup {[size |-> n, header |-> h, pages |-> 1, plumber |-> t1, pypdf2 |-> t2] :
                n \in sizes, h \in BOOLEAN, t1 \in PageTexts, t2 \in PageTexts}

UploadFiles(s) ==
    {[filename |-> f, content |-> c] : f \in UploadFilenames, c \in UploadContents(s)}

InitApi ==
    /\ settings \in ApiSettings
    /\ Idle

\* str.endswith
endswith(s, suffix) ==
    /\ Len(s) >= Len(suffix)
    /\ SubSeq(s, Len(s) - Len(suffix) + 1, Len(s)) = suffix

\* PDFProcessor.validate_pdf_file
validate_pdf_file(file_content) ==
    IF ~file_content.header THEN FALSE
    ELSE IF file_content.pages = -1 THEN FALSE
    ELSE file_content.pages > 0

\* PDFProcessor.extract_text_from_pdf: [exc, text]; _extract_with_pdfplumber
\* and _extract_with_pypdf2 return "" when the library raises
extract_text_from_pdf(file_content) ==
    LET text1 == file_content.plumber
        text2 == file_content.pypdf2
    IN  IF text1 # <<>> /\ strip(text1) # <<>> THEN [exc |-> "none", text |-> text1]
        ELSE IF text2 # <<>> /\ strip(text2) # <<>> THEN [exc |-> "none", text |-> text2]
        ELSE [exc |-> "none", text |-> <<>>]

\* get_ai_service: [exc, err, service]
get_ai_service(s) ==
    LET made == create_ai_service(s)
    IN  IF made.exc = "ValueError"
        THEN [exc |-> "HTTPException",
              err |-> HTTPException(503, made.msg, "not_configured"),
              service |-> NoService]
        ELSE [exc |-> made.exc, err |-> NoError, service |-> made.service]

\* the except clauses of upload_cv: what leaves the handler when err was
\* raised in its try block
upload_cv_except(err) ==
    IF err.kind = "PDFProcessingError" THEN HTTPException(400, err.msg, err.cause)
    ELSE IF err.kind = "AIServiceError" THEN HTTPException(503, err.msg, err.cause)
    ELSE HTTPException(500, "Internal server error", err.cause)

\* the request ends with the exception err leaving the handler
answered(u, err) == [u EXCEPT !.pc = "done", !.status = err.status, !.detail = err.msg]

\* the check `name` of upload_cv has run: on to the step `next`, or err raised
checked(u, name, ok, next, err) ==
    LET ran == [u EXCEPT !.checks = Append(@, name)]
    IN  IF ok THEN [ran EXCEPT !.pc = next]
        ELSE answered([ran EXCEPT !.failed_at = name], upload_cv_except(err))

\* the name of the file upload_cv writes: f"{cv.id}_{file.filename}"
file_path(c, filename) == <<c.id, "_">> \o filename

\* A slip: the upload stored as soon as it has been read
read_file_and_store(u) ==
    [u EXCEPT !.file_content = u.file.content,
              !.dir = {file_path(u.cv, u.file.filename)}]

\* file_content = await file.read()
read_file(u) == [u EXCEPT !.file_content = u.file.content]

\* a client posts a file; FastAPI resolves get_ai_service before the handler
UploadRequest ==
    /\ upload.pc = "none"
    /\ \E f \in UploadFiles(settings) :
          LET dep == get_ai_service(settings)
              u == [NoUpload EXCEPT !.file = f]
          IN  IF dep.exc # "none"
              THEN /\ upload' = answered([u EXCEPT !.failed_at = "get_ai_service"], dep.err)
                   /\ UNCHANGED ai_service
              ELSE /\ upload' = [u EXCEPT !.pc = "file_type"]
                   /\ ai_service' = dep.service
    /\ UNCHANGED <<inputs, op, pc, texts, payload, analysis_in, analysis, result,
                   error, calls, rules_applied, entity, tasks, health>>

UploadFrame ==
    UNCHANGED <<inputs, op, pc, texts, payload, analysis_in, analysis, result,
                error, calls, rules_applied, entity, tasks, ai_service, health>>

\* upload_cv: the file type check
UploadFileType ==
    /\ upload.pc = "file_type"
    /\ upload' = checked(upload, "file_type",
                         /\ upload.file.filename # <<>>
                         /\ endswith(lower(upload.file.filename), <<".", "p", "d", "f">>),
                         "file_size",
                         HTTPException(400, "Only PDF files are supported", "file_type"))
    /\ UploadFrame

\* upload_cv: the file is read and its size checked
UploadFileSize ==
    /\ upload.pc = "file_size"
    /\ LET u == read_file(upload)
       IN  upload' = checked(u, "file_size",
                             ~(u.file_content.size > max_file_size_bytes(settings)),
                             "pdf_validation",
                             HTTPException(413, "File too large", "file_size"))
    /\ UploadFrame

\* upload_cv: validate_pdf_file
UploadValidatePdf ==
    /\ upload.pc = "pdf_validation"
    /\ upload' = checked(upload, "pdf_validation",
                         validate_pdf_file(upload.file_content),
                         "text_extraction",
                         HTTPException(400, "Invalid PDF file", "pdf_validation"))
    /\ UploadFrame

\* upload_cv: extract_text_from_pdf
UploadExtractText ==
    /\ upload.pc = "text_extraction"
    /\ LET r == extract_text_from_pdf(upload.file_content)
       IN  upload' = checked([upload EXCEPT !.raw_text = r.text], "text_extraction",
                             r.exc = "none", "non_blank_text",
                             Raise(r.exc, "Failed to extract text", "text_extraction"))
    /\ UploadFrame

\* upload_cv: the extracted text is not blank
UploadCheckText ==
    /\ upload.pc = "non_blank_text"
    /\ upload' = checked(upload, "non_blank_text",
                         strip(upload.raw_text) # <<>>,
                         "ai_extraction",
                         HTTPException(400, "Could not extract text from PDF",
                                       "non_blank_text"))
    /\ UploadFrame

\* upload_cv: ai_service.extract_cv_data(raw_text), which returns the CV built
\* from the payload the collaborator sent or raises AIServiceError
UploadExtractCv ==
    /\ upload.pc = "ai_extraction"
    /\ \/ upload' = checked(upload, "ai_extraction", FALSE, "save",
                            operation_except("AIServiceError", "transport"))
       \/ \E d \in CVPayloads :
             LET c == convert_to_cv_entity(d)
             IN  upload' = checked([upload EXCEPT !.cv = c.cv], "ai_extraction",
                                   c.exc = "none", "save",
                                   operation_except(c.exc, "conversion"))
    /\ UploadFrame

\* upload_cv: cv.id and cv.filename are set and the file is written, unless
\* the file system refuses
UploadSave ==
    /\ upload.pc = "save"
    /\ LET u == [upload EXCEPT !.cv.id = "uuid", !.cv.filename = upload.file.filename]
       IN  \/ upload' = [u EXCEPT !.pc = "respond",
                                  !.dir = {file_path(u.cv, u.file.filename)}]
           \/ upload' = answered([u EXCEPT !.failed_at = "save"],
                                 upload_cv_except(Raise("OSError", "", "save")))
    /\ UploadFrame

\* upload_cv: the CVUploadResponse is built and returned
UploadRespond ==
    /\ upload.pc = "respond"
    /\ LET years == total_experience_years(upload.cv)
       IN  IF years.exc # "none"
           THEN upload' = answered([upload EXCEPT !.failed_at = "respond"],
                                   upload_cv_except(Raise(years.exc, "", "respond")))
           ELSE upload' = [upload EXCEPT
                              !.pc = "done", !.status = 200,
                              !.detail = "CV uploaded and analyzed successfully"]
    /\ UploadFrame

\* the response has been sent
UploadEnd ==
    /\ upload.pc = "done"
    /\ upload' = NoUpload
    /\ ai_service' = NoService
    /\ UNCHANGED <<inputs, op, pc, texts, payload, analysis_in, analysis, result,
                   error, calls, rules_applied, entity, tasks, health>>

\* GET /health
HealthCheck ==
    /\ health' = [status |-> "healthy",
                  ai_service_configured |-> is_ai_configured(settings)]
    /\ UNCHANGED <<inputs, op, pc, texts, payload, analysis_in, analysis, result,
                   error, calls, rules_applied, entity, tasks, ai_service, upload>>

NextApi ==
    \/ UploadRequest
    \/ UploadFileType
    \/ UploadFileSize
    \/ UploadValidatePdf
    \/ UploadExtractText
    \/ UploadCheckText
    \/ UploadExtractCv
    \/ UploadSave
    \/ UploadRespond
    \/ UploadEnd
    \/ HealthCheck

SpecApi == InitApi /\ [][NextApi]_vars

(***************************************************************************)
(* Claims about the business rules (checked under SpecRules).              *)
(***************************************************************************)
\* The claim's own reading of the inputs, written without the code's helpers.
MissingMandatoryCount ==
    Cardinality({i \in DOMAIN job.required_skills :
                    /\ job.required_skills[i].is_mandatory = JBool(TRUE)
                    /\ \A k \in DOMAIN cv.skills :
                           cv.skills[k].name # job.required_skills[i].skill})
CvMonths == SumSeq([i \in DOMAIN cv.experience |-> cv.experience[i].duration_months.n])
SurplusMonths == CvMonths - MonthsPerYear * job.min_experience_years.n
BaseInRange ==
    /\ analysis_in.overall_score.n >= Points(0)
    /\ analysis_in.overall_score.n <= Points(100)
Penalized == Max(Points(0), analysis_in.overall_score.n - Points(10) * MissingMandatoryCount)
\* 2 * (cv_years - min_years) points, capped at 10 points
ClaimedBoost == Min(Points(10), (2 * ScoreScale * SurplusMonths) \div MonthsPerYear)
ClaimedScore ==
    IF SurplusMonths >= 0 THEN Min(Points(100), Penalized + ClaimedBoost) ELSE Penalized

\* C1: for a base score in [0,100], _apply_business_rules leaves overall_score
\* at max(0, b - 10*M), then, when the CV's years reach the job's minimum,
\* at min(100, p + min(10, 2*surplus)); base 95, M = 1, surplus 3 gives 91 and
\* base 5, M = 3, surplus 3 gives 6.
C1_PenaltyThenBoost ==
    (op = "_apply_business_rules" /\ pc # "call" /\ BaseInRange) =>
        /\ pc = "returned"
        /\ analysis.overall_score = JNum(ClaimedScore)
        /\ (analysis_in.overall_score.n = Points(95) /\ MissingMandatoryCount = 1
             /\ SurplusMonths = Years(3)) => analysis.overall_score.n = Points(91)
        /\ (analysis_in.overall_score.n = Points(5) /\ MissingMandatoryCount = 3
             /\ SurplusMonths = Years(3)) => analysis.overall_score.n = Points(6)

C1_Witness ==
    /\ op = "_apply_business_rules" /\ pc = "returned"
    /\ analysis_in.overall_score.n = Points(5)
    /\ MissingMandatoryCount = 3
    /\ SurplusMonths = Years(3)
    /\ analysis.overall_score.n = Points(6)

\* C2: whatever overall_score is on entry, the overall_score of the analysis
\* that _apply_business_rules returns lies in [0,100].
C2_ReturnedScoreInRange ==
    (op = "_apply_business_rules" /\ pc = "returned") =>
        /\ analysis.overall_score.n >= Points(0)
        /\ analysis.overall_score.n <= Points(100)

(***************************************************************************)
(* Claims about the operations (checked under Spec).                       *)
(***************************************************************************)
\* C3: a match result handed to an API caller has been normalized and then
\* refined by _apply_business_rules; in particular the result POST
\* /api/v1/match returns through GeminiAIService.match_cv_job.
C3_RefinedBeforeBoundary ==
    (op \in {"match_cv_job", "create_match_analysis"} /\ pc = "returned") =>
        (converter_calls >= 1 /\ rules_applied)

\* the operation's converter has run on the payload
Converted == converter_calls = 1 /\ pc # "convert"
ConversionAborted == pc = "failed" /\ error.cause = "conversion"

NumberOf(q, Test(_)) == Cardinality({i \in DOMAIN q : Test(q[i])})
WellFormedLevel(v) == v.t \in {"missing", "str"}
WellFormedSkill(r) == r.t = "map" /\ WellFormedLevel(r.level)
WellFormedRequirement(r) == r.t = "map" /\ WellFormedLevel(r.required_level)
WellFormedOptionalLevel(v) == v.t \in {"missing", "null", "str"}
WellFormedMatch(r) ==
    /\ r.t = "map"
    /\ WellFormedOptionalLevel(r.cv_skill_level)
    /\ WellFormedOptionalLevel(r.required_level)

\* C4: a malformed sub-record of a payload list never aborts the conversion:
\* the converter returns an entity that holds every well-formed sub-record.
C4_MalformedSubRecordNeverAborts ==
    /\ (Converted /\ payload.kind = "cv" /\ payload.cv.skills.t = "list") =>
          /\ ~ConversionAborted
          /\ Len(result.cv.skills) >= NumberOf(payload.cv.skills.v, WellFormedSkill)
    /\ (Converted /\ payload.kind = "job"
        /\ payload.job.required_skills.t = "list") =>
          /\ ~ConversionAborted
          /\ Len(result.job.required_skills)
                >= NumberOf(payload.job.required_skills.v, WellFormedRequirement)
    /\ (Converted /\ payload.kind = "match"
        /\ payload.match.skill_matches.t = "list") =>
          /\ ~ConversionAborted
          /\ Len(analysis.skill_matches)
                >= NumberOf(payload.match.skill_matches.v, WellFormedMatch)

\* The level the claim gives for each level value of the inputs.
ClaimedLevel(v) ==
    CASE v = JStr(s_beginner) -> "beginner"
      [] v = JStr(<<"I","n","t","e","r","m","e","d","i","a","t","e">>) -> "intermediate"
      [] v = JStr(<<"A","D","V","A","N","C","E","D">>) -> "advanced"
      [] v = JStr(<<"e","X","p","e","r","t">>) -> "expert"
      [] v = JStr(s_expert) -> "expert"
      [] OTHER -> "beginner"

InClaim(r, Level(_)) == r.t = "map" /\ WellFormedLevel(Level(r))

\* every record the claim covers has gone through the loop body without an
\* exception and with the claimed level; when all records are covered, they
\* are all in the returned entity, in order, with the claimed levels
LevelsAsClaimed(records, entities, Level(_), EntityLevel(_), Body(_)) ==
    /\ \A i \in DOMAIN records :
          InClaim(records[i], Level) =>
              /\ Body(records[i]).exc = "none"
              /\ EntityLevel(Body(records[i]).item) = ClaimedLevel(Level(records[i]))
              /\ pc = "returned" =>
                    /\ i \in DOMAIN entities
                    /\ EntityLevel(entities[i]) = ClaimedLevel(Level(records[i]))
    /\ (\A i \in DOMAIN records : InClaim(records[i], Level)) =>
          /\ ~ConversionAborted
          /\ pc = "returned"
          /\ Len(entities) = Len(records)

\* C5: a skill of a CV payload, or a required or preferred requirement of a
\* job payload, whose level is a canonical name in any letter case gets that
\* SkillLevel; one whose level is missing or an unrecognized string is kept
\* with level beginner, and no error is raised.
C5_LevelResolvedOrBeginner ==
    /\ (Converted /\ payload.kind = "cv" /\ payload.cv.skills.t = "list") =>
          LevelsAsClaimed(payload.cv.skills.v, result.cv.skills,
                          LAMBDA r : r.level, LAMBDA e : e.level, cv_skill_body)
    /\ (Converted /\ payload.kind = "job"
        /\ payload.job.required_skills.t = "list") =>
          LevelsAsClaimed(payload.job.required_skills.v, result.job.required_skills,
                          LAMBDA r : r.required_level, LAMBDA e : e.required_level,
                          LAMBDA r : job_requirement_body(r, FALSE))
    /\ (Converted /\ payload.kind = "job"
        /\ payload.job.preferred_skills.t = "list") =>
          LevelsAsClaimed(payload.job.preferred_skills.v, result.job.preferred_skills,
                          LAMBDA r : r.required_level, LAMBDA e : e.required_level,
                          LAMBDA r : job_requirement_body(r, TRUE))

C5_Witness ==
    /\ op = "extract_cv_data" /\ pc = "returned"
    /\ payload.cv.skills =
         LList(<<[t |-> "map", name |-> JStr(s_python), level |-> JStr(s_ninja)],
                 [t |-> "map", name |-> JStr(s_python),
                  level |-> JStr(<<"e","X","p","e","r","t">>)]>>)
    /\ Len(result.cv.skills) = 2
    /\ result.cv.skills[1].level = "beginner"
    /\ result.cv.skills[2].level = "expert"

\* The optional level the claim gives for each level value of the inputs.
ClaimedOptionalLevel(v) ==
    CASE v = JStr(s_beginner) -> "beginner"
      [] v = JStr(<<"e","X","p","e","r","t">>) -> "expert"
      [] OTHER -> "None"

\* C6: in convert_to_match_analysis a cv_skill_level or required_level that is
\* missing or not a canonical name (in any letter case) gives a SkillMatch
\* whose level field is None, the SkillMatch is still in skill_matches, and
\* the two fields are resolved independently.
C6_UnrecognizedLevelIsAbsent ==
    LET records == payload.match.skill_matches.v
    IN  (Converted /\ payload.kind = "match"
         /\ payload.match.skill_matches.t = "list"
         /\ \A i \in DOMAIN records : records[i].t = "map") =>
            /\ ~ConversionAborted
            /\ Len(analysis.skill_matches) = Len(records)
            /\ \A i \in DOMAIN records :
                  /\ analysis.skill_matches[i].cv_skill_level
                        = ClaimedOptionalLevel(records[i].cv_skill_level)
                  /\ analysis.skill_matches[i].required_level
                        = ClaimedOptionalLevel(records[i].required_level)

\* The first "{" and the last "}" of the collaborator's text, found by position.
HasBraces(s) == (\E i \in DOMAIN s : s[i] = "{") /\ (\E i \in DOMAIN s : s[i] = "}")
FirstOpen(s) == CHOOSE i \in DOMAIN s : s[i] = "{" /\ \A k \in DOMAIN s : s[k] = "{" => i <= k
LastClose(s) == CHOOSE i \in DOMAIN s : s[i] = "}" /\ \A k \in DOMAIN s : s[k] = "}" => k <= i
Answered == generate_calls = 1 /\ pc # "generate" /\ error.cause # "transport"

\* C7: the text handed to the JSON parser is the collaborator's response from
\* its first "{" to its last "}" inclusive; a response with no "{" or no "}"
\* fails with AIServiceError, and neither the parser nor a converter is called.
C7_PayloadIsBraceSubstring ==
    /\ parser_calls >= 1 =>
          /\ HasBraces(raw_response)
          /\ parser_input = SubSeq(raw_response, FirstOpen(raw_response),
                                   LastClose(raw_response))
    /\ (op \in ServiceOps /\ Answered /\ ~HasBraces(raw_response)) =>
          /\ parser_calls = 0
          /\ converter_calls = 0
          /\ pc \in {"strip", "extract", "failed"}
          /\ pc = "failed" => error.kind = "AIServiceError"

C7_Witness ==
    /\ op \in ServiceOps
    /\ parser_calls = 1
    /\ raw_response = <<"m", "{", "}">>
    /\ parser_input = <<"{", "}">>

HasMalformedSubRecord ==
    \/ payload.kind = "cv" /\ payload.cv.skills.t = "list"
       /\ NumberOf(payload.cv.skills.v, WellFormedSkill) < Len(payload.cv.skills.v)
    \/ payload.kind = "job" /\ payload.job.required_skills.t = "list"
       /\ NumberOf(payload.job.required_skills.v, WellFormedRequirement)
             < Len(payload.job.required_skills.v)
    \/ payload.kind = "match" /\ payload.match.skill_matches.t = "list"
       /\ NumberOf(payload.match.skill_matches.v, WellFormedMatch)
             < Len(payload.match.skill_matches.v)

\* C8: a substring that is not valid JSON fails the operation with
\* AIServiceError and no entity, whereas a payload that parses and only has
\* sub-records to drop returns an entity and raises nothing.
C8_ParseFailureVersusDroppedRecords ==
    /\ (op \in ServiceOps /\ parser_calls = 1 /\ ~json_loads_ok(parser_input)) =>
          /\ pc = "failed"
          /\ error.kind = "AIServiceError"
          /\ result = NoResult
    /\ (op \in ServiceOps /\ Converted /\ HasMalformedSubRecord) =>
          /\ pc = "returned"
          /\ error = NoError
          /\ result.kind # "none"

\* The kinds of the errors the operation raises for a malformed response.
MalformedResponseKinds ==
    {outward(op, operation_except("AIServiceError", "no_json")).kind,
     outward(op, operation_except("JSONDecodeError", "invalid_json")).kind}

\* C9: a transport failure of the generate call reaches the caller as an error
\* of another kind than the errors raised for a malformed response.
C9_TransportFailureIsDistinctKind ==
    (op \in ServiceOps /\ pc = "failed" /\ error.cause = "transport") =>
        error.kind \notin MalformedResponseKinds

\* C10: the collaborator is invoked at most once in an operation, and after a
\* transport failure, an empty response or a malformed response the operation
\* has failed with that single invocation.
C10_NoRetry ==
    /\ generate_calls <= 1
    /\ error.cause \in {"transport", "empty", "no_json", "invalid_json"} =>
          pc = "failed" /\ generate_calls = 1

C10_Witness ==
    /\ op = "create_match_analysis"
    /\ pc = "failed"
    /\ error.cause = "transport"
    /\ generate_calls = 1

\* the payload's experience list is a list of JSON objects, and nothing else
\* in the payload stops the conversion
ExperienceListOfMaps ==
    /\ payload.kind = "cv"
    /\ payload.cv.skills.t = "missing"
    /\ payload.cv.education.t = "missing"
    /\ payload.cv.experience.t = "list"
    /\ \A i \in DOMAIN payload.cv.experience.v : payload.cv.experience.v[i].t = "map"

NumericDuration(r) == r.duration_months.t \in {"missing", "num"}

\* C11: convert_to_cv_entity discards an experience sub-record whose
\* duration_months is not numeric and keeps the others, so that every
\* Experience of the returned CV has a numeric duration_months and
\* total_experience_years can be computed.
C11_NonNumericDurationDiscarded ==
    (op = "extract_cv_data" /\ Converted /\ ExperienceListOfMaps) =>
        /\ pc = "returned"
        /\ result.kind = "CV"
        /\ Len(result.cv.experience)
              = NumberOf(payload.cv.experience.v, NumericDuration)
        /\ \A i \in DOMAIN result.cv.experience :
              result.cv.experience[i].duration_months.t = "num"
        /\ total_experience_years(result.cv).exc = "none"

\* the list a payload's list-valued key gives an entity: its own list, the
\* empty one when the key is missing or null
GivenList(lf) == IF lf.t = "list" THEN lf.v ELSE <<>>

\* C12: every list-valued field of an entity a converter returns, and of its
\* nested records (Experience.skills_used), is a sequence and not None, also
\* when the payload has an explicit null under the key; a missing key gives
\* the empty sequence.
C12_ListFieldsNeverNone ==
    /\ (op = "extract_cv_data" /\ pc = "returned") =>
          /\ result.cv.certifications = GivenList(payload.cv.certifications)
          /\ result.cv.languages = GivenList(payload.cv.languages)
          /\ \A i \in DOMAIN result.cv.experience :
                /\ result.cv.experience[i].skills_used.t = "list"
                /\ result.cv.experience[i].skills_used.v
                      = GivenList(payload.cv.experience.v[i].skills_used)
    /\ (op = "analyze_job_description" /\ pc = "returned") =>
          /\ result.job.required_education = GivenList(payload.job.required_education)
          /\ result.job.required_certifications
                = GivenList(payload.job.required_certifications)
    /\ (op = "calculate_match_score" /\ pc = "returned") =>
          /\ result.analysis.missing_skills = GivenList(payload.match.missing_skills)
          /\ result.analysis.matching_skills = GivenList(payload.match.matching_skills)
          /\ result.analysis.interview_tips = GivenList(payload.match.interview_tips)
          /\ Len(result.analysis.recommendations)
                = Len(GivenList(payload.match.recommendations))

\* C17: _apply_business_rules never fails on the entities the converters
\* return: it terminates and returns the analysis without raising.
C17_RulesNeverFail ==
    (op = "create_match_analysis" /\ rules_applied) =>
        /\ pc = "returned"
        /\ error = NoError
        /\ result.kind = "MatchAnalysis"

(***************************************************************************)
(* Claims about the recommendations (checked under SpecRecs).              *)
(***************************************************************************)
RulesReturned == op = "_apply_business_rules" /\ pc = "returned"

\* the lines _apply_business_rules has added after the ones it was given
Appended ==
    SubSeq(analysis.recommendations, Len(analysis_in.recommendations) + 1,
           Len(analysis.recommendations))
AppendedKinds == [i \in DOMAIN Appended |-> Appended[i].kind]
LinesOfKind(k) == SelectSeq(Appended, LAMBDA line : line.kind = k)

\* x = q/4 to one decimal: the number of tenths nearest to 10x = 5q/2,
\* the even one of the two when they are equally near
Distance(a, b) == IF a >= b THEN a - b ELSE b - a
OneDecimal(q) ==
    CHOOSE t \in 0..(3 * q + 1) :
        /\ Distance(2 * t, 5 * q) <= 1
        /\ Distance(2 * t, 5 * q) = 1 => t % 2 = 0

MissingSkillsHolds == analysis_in.missing_skills # <<>>
GapHolds == analysis_in.experience_gap_years.n > 0
\* some entry of required_education is equal, letter case ignored, to no
\* degree of the CV
SomeEducationUncovered ==
    \E i \in DOMAIN job.required_education :
        \A k \in DOMAIN cv.education :
            lower(cv.education[k].degree.s) # lower(job.required_education[i].s)
IfHolds(cond, kind) == IF cond THEN <<kind>> ELSE <<>>

C15_FirstThreeMissingSkills ==
    RulesReturned =>
        LET n == Len(analysis_in.missing_skills)
        IN  IF n = 0 THEN LinesOfKind("learn") = <<>>
            ELSE /\ Len(LinesOfKind("learn")) = 1
                 /\ LinesOfKind("learn")[1].names
                       = [i \in 1..(IF n < 3 THEN n ELSE 3) |->
                             analysis_in.missing_skills[i]]

C15_Witness ==
    /\ RulesReturned
    /\ Len(analysis_in.missing_skills) = 4
    /\ analysis_in.missing_skills[3] # analysis_in.missing_skills[1]
    /\ Len(LinesOfKind("learn")[1].names) = 3

\* the entries of required_education that no degree of the CV equals, letter
\* case ignored, in required_education order
Uncovered ==
    SelectSeq(job.required_education,
              LAMBDA edu : \A k \in DOMAIN cv.education :
                               lower(cv.education[k].degree.s) # lower(edu.s))

\* C16: when required_education is non-empty and has an entry no degree of
\* the CV equals (letter case ignored; also when the CV has no education at
\* all), exactly one education line is appended, naming the first such entry;
\* when every entry is covered there is no education line.
C16_EducationLineForFirstUncovered ==
    RulesReturned =>
        IF job.required_education # <<>> /\ Uncovered # <<>>
        THEN /\ Len(LinesOfKind("pursue")) = 1
             /\ LinesOfKind("pursue")[1].text = Uncovered[1]
        ELSE LinesOfKind("pursue") = <<>>

(***************************************************************************)
(* Claims about the entities and the validation (checked under             *)
(* SpecEntities).                                                          *)
(***************************************************************************)
Constructed == op \in {"CV", "Job", "MatchAnalysis"} /\ pc = "returned"

\* C13: a CV, Job or MatchAnalysis constructed with a list field left out or
\* passed as None has the empty sequence in that field, never None; a list
\* that was supplied is kept unchanged.
C13_OmittedListFieldsAreEmpty ==
    Constructed =>
        \A f \in DOMAIN args :
            /\ value[f].t = "list"
            /\ value[f].v = IF args[f].t = "list" THEN args[f].v ELSE <<>>

C13_Witness ==
    /\ op = "MatchAnalysis"
    /\ pc = "returned"
    /\ args.recommendations = LMissing
    /\ args.interview_tips = LNull
    /\ args.missing_skills = LList(<<JStr(s_python), JStr(s_sql)>>)
    /\ value.recommendations = LList(<<>>)
    /\ value.interview_tips = LList(<<>>)
    /\ value.missing_skills = LList(<<JStr(s_python), JStr(s_sql)>>)

\* the label the claim gives a score (in sixths of a point)
ClaimedLabel(score) ==
    CASE score >= 80 * ScoreScale -> "Highly Recommended"
      [] score >= 60 * ScoreScale /\ score < 80 * ScoreScale -> "Recommended"
      [] score >= 40 * ScoreScale /\ score < 60 * ScoreScale -> "Consider with Caution"
      [] score < 40 * ScoreScale -> "Not Recommended"

\* C18: for a Match that has an analysis, recommendation_level is a step
\* function of overall_score alone with the boundaries 40, 60 and 80 in the
\* higher tier, whatever the status and the other fields.
C18_RecommendationLevelSteps ==
    (op = "Match.recommendation_level" /\ pc = "returned"
        /\ args.analysis.t = "obj") =>
        value.label = ClaimedLabel(args.analysis.overall_score)

C18_Witness ==
    /\ op = "Match.recommendation_level"
    /\ pc = "returned"
    /\ args.status = "failed"
    /\ args.analysis = SomeMatchAnalysis(Points(80))
    /\ value.label = "Highly Recommended"

\* C19: is_completed is true iff status is completed and an analysis is
\* present.
C19_CompletedIffStatusAndAnalysis ==
    (op = "Match.is_completed" /\ pc = "returned") =>
        /\ value.b <=> (args.status = "completed" /\ args.analysis.t = "obj")
        /\ args.status \in {"pending", "in_progress", "failed"} => ~value.b
        /\ args.analysis.t = "null" => ~value.b

C19_Witness ==
    /\ op = "Match.is_completed"
    /\ pc = "returned"
    /\ args.status = "completed"
    /\ args.analysis.t = "null"
    /\ ~value.b

\* raw_text is empty or has whitespace only
Blank(text) == \A i \in DOMAIN text : text[i] \in {" ", "\n", "\t"}

\* C20: validate_cv returns one message iff raw_text is blank and one iff
\* filename is empty, the text message first: two messages for a blank text
\* with an empty filename, none for a non-blank text with a filename.
C20_ValidateCvAccumulates ==
    (op = "validate_cv" /\ pc = "returned") =>
        value.errors =
            (IF Blank(args.raw_text) THEN <<"CV must contain text content">> ELSE <<>>)
            \o (IF Len(args.filename) = 0 THEN <<"CV must have a filename">> ELSE <<>>)

C20_Witness ==
    /\ op = "validate_cv"
    /\ pc = "returned"
    /\ args.raw_text = <<" ", "\n">>
    /\ args.filename = <<>>
    /\ Len(value.errors) = 2

MessageIf(cond, message) == IF cond THEN <<message>> ELSE <<>>

\* C21: validate_job returns exactly the messages of the violated conditions,
\* in the order title, description, minimum experience: blank title, blank
\* description, min_experience_years < 0; 0 years is valid.
C21_ValidateJobAccumulates ==
    (op = "validate_job" /\ pc = "returned") =>
        /\ value.errors =
              MessageIf(Blank(args.title), "Job must have a title")
              \o MessageIf(Blank(args.description), "Job must have a description")
              \o MessageIf(args.min_experience_years.n <= -1,
                           "Minimum experience years cannot be negative")
        /\ value.errors = <<>> <=>
              (~Blank(args.title) /\ ~Blank(args.description)
               /\ args.min_experience_years.n >= 0)

C21_Witness ==
    /\ op = "validate_job"
    /\ pc = "returned"
    /\ args.title = <<"\n">>
    /\ args.description = <<"m", " ">>
    /\ args.min_experience_years.n = -1
    /\ value.errors = <<"Job must have a title",
                        "Minimum experience years cannot be negative">>

\* the identifier is absent (None), empty or whitespace only
BlankId(id) == id.t = "null" \/ Blank(id.s)

\* C22: validate_match_request returns the empty list iff both identifiers are
\* non-blank strings; an absent, empty or whitespace-only identifier yields
\* its own message, the CV message first, and it never raises.
C22_ValidateMatchRequest ==
    (op = "validate_match_request" /\ pc = "returned") =>
        /\ value.exc = "none"
        /\ value.errors =
              MessageIf(BlankId(args.cv_id), "CV ID is required")
              \o MessageIf(BlankId(args.job_id), "Job ID is required")
        /\ value.errors = <<>> <=> (~BlankId(args.cv_id) /\ ~BlankId(args.job_id))

C22_Witness ==
    /\ op = "validate_match_request"
    /\ pc = "returned"
    /\ args.cv_id = JNull
    /\ args.job_id = JStr(<<" ">>)
    /\ value.errors = <<"CV ID is required", "Job ID is required">>

(***************************************************************************)
(* Claims about what the rules leave alone (checked under SpecRecs).       *)
(***************************************************************************)
\* an analysis with the two fields the rules may change blanked out
Frame(a) == [a EXCEPT !.overall_score = JNull, !.recommendations = <<>>]

\* C24: _apply_business_rules returns the analysis it was given, with the
\* same cv_id and job_id, having changed only overall_score and
\* recommendations; the CV and the Job are left as they were.
C24_RulesChangeScoreAndRecommendationsOnly ==
    [][(op = "_apply_business_rules" /\ pc = "call" /\ pc' = "returned") =>
          /\ Frame(analysis') = Frame(analysis)
          /\ analysis'.cv_id = analysis.cv_id
          /\ analysis'.job_id = analysis.job_id
          /\ result'.analysis = analysis'
          /\ cv' = cv
          /\ job' = job]_vars

C24_Witness ==
    /\ RulesReturned
    /\ analysis.overall_score # analysis_in.overall_score
    /\ Len(analysis.recommendations) > Len(analysis_in.recommendations)
    /\ analysis.experience_score = JNum(Points(60))
    /\ analysis.missing_skills # <<>>
    /\ cv.education # <<>>

(***************************************************************************)
(* Claims about the requirements of a Job (checked under Spec).            *)
(***************************************************************************)
JobReturned == op = "analyze_job_description" /\ pc = "returned"

\* what the payload gives under a key, or the default when it gives nothing
GivenOr(v, default) == IF v.t = "missing" THEN default ELSE v

\* a CV without skills and an analysis of 50 points, to read the penalty off
PenaltyProbe ==
    rule_penalty(MkAnalysis("cv1", "job1", JNum(50 * ScoreScale), <<>>, <<>>,
                            JNum(0), <<>>),
                 MkCV("cv1", <<>>, <<>>, <<>>), result.job).a.overall_score.n

\* C25: in a Job convert_to_job_entity returns, a requirement from
\* preferred_skills has is_mandatory false whatever the payload says and
\* weight 0.5 (1 half) unless given, one from required_skills has is_mandatory
\* true and weight 1.0 (2 halves) unless given; so mandatory_skills are
\* required skills and a preferred skill adds nothing to the penalty.
C25_PreferredNeverMandatory ==
    JobReturned =>
        LET required == GivenList(payload.job.required_skills)
            preferred == GivenList(payload.job.preferred_skills)
        IN  /\ Len(result.job.required_skills) = Len(required)
            /\ Len(result.job.preferred_skills) = Len(preferred)
            /\ \A i \in DOMAIN preferred :
                  /\ result.job.preferred_skills[i].is_mandatory = JBool(FALSE)
                  /\ result.job.preferred_skills[i].weight
                        = GivenOr(preferred[i].weight, JNum(1))
            /\ \A i \in DOMAIN required :
                  /\ result.job.required_skills[i].is_mandatory
                        = GivenOr(required[i].is_mandatory, JBool(TRUE))
                  /\ result.job.required_skills[i].weight
                        = GivenOr(required[i].weight, JNum(2))
            /\ \A i \in DOMAIN mandatory_skills(result.job) :
                  \E k \in DOMAIN result.job.required_skills :
                      result.job.required_skills[k] = mandatory_skills(result.job)[i]
            /\ PenaltyProbe =
                  50 * ScoreScale
                  - 10 * ScoreScale
                       * Cardinality({i \in DOMAIN required :
                            GivenOr(required[i].is_mandatory, JBool(TRUE))
                                = JBool(TRUE)})

C25_Witness ==
    /\ JobReturned
    /\ Len(result.job.preferred_skills) = 2
    /\ payload.job.preferred_skills.v[1].is_mandatory = JBool(TRUE)
    /\ payload.job.preferred_skills.v[2].is_mandatory = JMissing
    /\ result.job.preferred_skills[1].is_mandatory = JBool(FALSE)
    /\ result.job.preferred_skills[2].weight = JNum(1)
    /\ mandatory_skills(result.job) = <<>>

(***************************************************************************)
(* Claims about concurrent computations (checked under SpecConcurrent).    *)
(***************************************************************************)
\* what create_match_analysis returns on t's inputs and t's answer when it is
\* the only computation: [exc, a]
Alone(t) ==
    LET a == convert_to_match_analysis(tasks[t].payload,
                                       id_or_unknown(tasks[t].cv.id),
                                       id_or_unknown(tasks[t].job.id))
    IN  IF a.exc # "none" THEN [exc |-> "AIServiceError", a |-> NoAnalysis]
        ELSE apply_business_rules(a.analysis, tasks[t].cv, tasks[t].job)

\* C23: create_match_analysis computations interleaved in any order at their
\* awaits each return the analysis they return when run alone (and fail when
\* they fail alone).
C23_ConcurrentMatchesDoNotInterfere ==
    \A t \in DOMAIN tasks :
        /\ tasks[t].pc = "returned" =>
              Alone(t).exc = "none" /\ tasks[t].result = Alone(t).a
        /\ tasks[t].pc = "failed" => Alone(t).exc = tasks[t].exc

C23_Witness ==
    /\ DOMAIN tasks = 1..MaxTasks
    /\ tasks[1].pc = "returned"
    /\ tasks[2].pc = "returned"
    /\ tasks[1].result # tasks[2].result
    /\ tasks[1].result.recommendations # <<>>

(***************************************************************************)
(* Claims about the routes (POST /api/v1/match checked under Spec).        *)
(***************************************************************************)
\* the body of the request in progress lacks 'cv' or 'job', or gives one empty
MissingData ==
    request.cv \in {"absent", "empty"} \/ request.job \in {"absent", "empty"}

\* C26: a POST /api/v1/match whose body lacks 'cv' or 'job' (or gives either as
\* empty) is answered with status 400 and the detail "Both 'cv' and 'job' data
\* are required", and the AI service is neither constructed nor called.
C26_MissingDataRejectedWith400 ==
    (op = "match_cv_job" /\ pc # "route" /\ MissingData) =>
        /\ pc = "failed"
        /\ error.kind = "HTTPException"
        /\ error.status = 400
        /\ error.msg = "Both 'cv' and 'job' data are required"
        /\ ai_service = NoService
        /\ generate_calls = 0

\* the part of C26 about the AI service alone
C26_ServiceUntouched ==
    (op = "match_cv_job" /\ pc # "route" /\ MissingData) =>
        pc = "failed" /\ ai_service = NoService /\ generate_calls = 0

(***************************************************************************)
(* Claims about POST /api/v1/cv/upload and GET /health (checked under      *)
(* SpecApi).                                                               *)
(***************************************************************************)
\* C27: in upload_cv a filename not ending in .pdf is answered with 400, a
\* file over the configured maximum with 413, a file failing PDF validation
\* with 400 and a PDF without extractable text with 400; 500 is the answer
\* only to failures that are none of these rejections, PDFProcessingError or
\* AIServiceError.
C27_RejectionsKeepTheirStatus ==
    upload.pc = "done" =>
        /\ upload.failed_at = "file_type" => upload.status = 400
        /\ upload.failed_at = "file_size" => upload.status = 413
        /\ upload.failed_at = "pdf_validation" => upload.status = 400
        /\ upload.failed_at = "non_blank_text" => upload.status = 400
        /\ upload.status = 500 =>
              upload.failed_at \notin {"file_type", "file_size", "pdf_validation",
                                       "non_blank_text", "text_extraction",
                                       "ai_extraction"}

\* the order of the checks the claim C28 gives
CheckOrder ==
    <<"file_type", "file_size", "pdf_validation", "text_extraction",
      "non_blank_text", "ai_extraction">>

IsPrefix(a, b) == Len(a) <= Len(b) /\ SubSeq(b, 1, Len(a)) = a

\* every check of upload_cv holds of the request in progress
AllChecksHold ==
    /\ endswith(lower(upload.file.filename), <<".", "p", "d", "f">>)
    /\ upload.file.content.size <= settings.max_file_size_mb * 1024 * 1024
    /\ upload.file.content.header
    /\ upload.file.content.pages > 0
    /\ \E i \in DOMAIN upload.raw_text : upload.raw_text[i] \notin {" ", "\n", "\t"}
    /\ upload.cv.id = "uuid"

\* C28: upload_cv runs its checks in the order file type, file size, PDF
\* validation, text extraction, non-blank text, AI extraction; the file is in
\* the upload directory only after all of them have succeeded, and when a
\* check fails or the AI extraction raises, no file is written and no CV
\* identifier is assigned.
C28_FileWrittenAfterAllChecks ==
    /\ IsPrefix(upload.checks, CheckOrder)
    /\ upload.dir # {} =>
          /\ upload.checks = CheckOrder
          /\ \A i \in DOMAIN CheckOrder : upload.failed_at # CheckOrder[i]
          /\ AllChecksHold
    /\ (\E i \in DOMAIN CheckOrder : upload.failed_at = CheckOrder[i]) =>
          /\ upload.dir = {}
          /\ upload.cv.id = ""

C28_Witness ==
    /\ upload.pc = "done"
    /\ upload.status = 200
    /\ upload.dir = {<<"uuid", "_", "A", ".", "P", "D", "F">>}
    /\ upload.checks = CheckOrder

\* C29: under every configuration of the API keys, when GET /health answers
\* ai_service_configured = true create_ai_service constructs an AI service,
\* and when it answers false create_ai_service fails with the 'not
\* configured' error.
C29_HealthAgreesWithFactory ==
    (health # NoHealth /\ upload.pc # "none") =>
        /\ health.ai_service_configured =>
              ai_service # NoService /\ upload.failed_at # "get_ai_service"
        /\ ~health.ai_service_configured =>
              /\ ai_service = NoService
              /\ upload.failed_at = "get_ai_service"
              /\ upload.detail = "Google Gemini API key not configured"

====
